---------------------------- MODULE Spec2Model ----------------------------
(***************************************************************************)
(* A model of crabtrack: the pass predictor (main.rs predict_passes), the  *)
(* two epoch-resolution paths (satellite.rs / main.rs), the look-angle     *)
(* geometry (pass_prediction.rs, observer.rs) and the live refresh loop    *)
(* with its alert engine (main.rs run_app / update_alerts, ui.rs), the    *)
(* radio heuristics (radio.rs), the decoding of the TLE epoch field and   *)
(* the scan of a TLE file (main.rs parse_multiple_tles), the satellite     *)
(* database (database.rs) and the satellite configuration editor (main.rs  *)
(* handle_satellite_config_input).                                         *)
(*                                                                         *)
(* Conventions.  Instants are whole seconds.  In the pass predictor they   *)
(* are offsets from start_time = Utc::now() of the call (start_time = 0).  *)
(* The f64 configuration values that the code casts with `as i64`          *)
(* (search_days, time_step) are held in halves: the value 3 stands for     *)
(* 1.5, and AsI64 is the truncating cast.  The SGP4 propagator is a black  *)
(* box: what it returns for an instant is chosen nondeterministically,     *)
(* once per instant.                                                       *)
(***************************************************************************)
EXTENDS Integers, Sequences, FiniteSets, TLC

VARIABLES
    cfg,        \* config::PredictionConfig of the call
    age,        \* start_time - tle_epoch, seconds (negative: epoch in the future)
    pc,         \* position in predict_passes: "start", "sweep", "done"
    pp,         \* the locals of predict_passes
    passes,     \* Vec<SatellitePass> being built
    samples,    \* the propagator's answers so far: <<[t, look]>>, one per instant
    nsamples,   \* loop iterations executed (saturates at MaxSamples)
    result,     \* what predict_passes returned
    warned,     \* the >30 days warning was printed
    prev,       \* an earlier call of predict_passes with the same arguments at
                \* the same instant: what it returned and what the
                \* propagator answered it
    ep,         \* one epoch resolution: the stored epoch, the instant, both answers
    la,         \* one look-angle computation: its inputs and its LookAngles
    app,        \* AppState: satellites, current_positions, selected_satellite,
                \* config, alerts, mode
    apc,        \* the application: "startup", "running", "crashed", "quit"
    clock,      \* Utc::now() at the start of the next loop iteration, seconds
    upd,        \* the clock readings of the last update_alerts and the
                \* satellites whose last propagation succeeded
    batch,      \* the start-up loop over the satellites: the next one to
                \* predict and what predict_passes returns for each
    rd,         \* one Doppler computation and one link evaluation: their
                \* inputs and results
    tle,        \* one epoch field of a TLE line 1 and the epoch decoded from it
    db,         \* the satellite_details table of the Database and the last
                \* call made on it, with what it returned
    ed,         \* SatelliteConfigState and AppState.mode: the configuration
                \* editor, with the last key it handled
    tf          \* one TLE file text and what parse_multiple_tles returns for it

sweepVars == <<cfg, age, pc, pp, passes, samples, nsamples, result, warned, prev>>

appVars == <<app, apc, clock, upd, batch>>

vars == <<cfg, age, pc, pp, passes, samples, nsamples, result, warned, prev,
          ep, la, app, apc, clock, upd, batch, rd, tle, db, ed, tf>>

\* what the actions of one component leave alone
notSweep == <<ep, la, appVars, rd, tle, db, ed, tf>>
notEpoch == <<sweepVars, la, appVars, rd, tle, db, ed, tf>>
notLook == <<sweepVars, ep, appVars, rd, tle, db, ed, tf>>
notApp == <<sweepVars, ep, la, rd, tle, db, ed, tf>>
notRadio == <<sweepVars, ep, la, appVars, tle, db, ed, tf>>
notTle == <<sweepVars, ep, la, appVars, rd, db, ed, tf>>
notDb == <<sweepVars, ep, la, appVars, rd, tle, ed, tf>>
notEditor == <<sweepVars, ep, la, appVars, rd, tle, tf>>
notFile == <<sweepVars, ep, la, appVars, rd, tle, db, ed>>

-----------------------------------------------------------------------------
(* Bounds and input sets *)

\* the iteration counter stops counting here (a sweep of the bounded
\* configurations that terminates takes at most 4 iterations)
MaxSamples == 6

SecondsPerDay == 86400

Elevations == {5, 10, 40}
Azimuths == {90, 270}

\* what the look-angle computation can return for one propagated sample
Looks == {[el |-> e, az |-> a, rng |-> IF a = 90 THEN 800 ELSE 1200] :
              e \in Elevations, a \in Azimuths}

\* search_days and time_step in halves (see the header)
PredictionConfigs ==
    [num_passes : 0..2,
     min_elevation : {10, 40},
     search_days : {2, 3},
     time_step : {0, 1, 43200, 57600, 60000}]

\* start_time - tle_epoch in seconds: 1 h, 31 d, 90.5 d, 91 d, and an epoch
\* 91 days in the future
Ages == {3600, 31 * 86400, 90 * 86400 + 43200, 91 * 86400, -(91 * 86400)}

-----------------------------------------------------------------------------
(* predict_passes *)

\* `x as i64` of an f64 held in halves: truncation toward zero
AsI64(h) == IF h >= 0 THEN h \div 2 ELSE -((-h) \div 2)

Abs(x) == IF x >= 0 THEN x ELSE -x

\* let tle_age_days = (start_time.timestamp() - tle_epoch.timestamp()).abs() / 86400
TleAgeDaysRoundUp(a) == (Abs(a) + SecondsPerDay - 1) \div SecondsPerDay
TleAgeDays(a) == Abs(a) \div SecondsPerDay

EndTime(c) == AsI64(c.search_days) * SecondsPerDay
TimeStep(c) == AsI64(c.time_step)

\* while current_time < end_time && passes.len() < config.num_passes
LoopCondPassesInclusive ==
    pp.current_time < EndTime(cfg) /\ Len(passes) <= cfg.num_passes
LoopCond == pp.current_time < EndTime(cfg) /\ Len(passes) < cfg.num_passes

\* the locals before the loop
InitLocals ==
    [current_time |-> 0, in_pass |-> FALSE, pass_start |-> 0,
     max_elevation |-> 0, max_elevation_time |-> 0,
     aos_azimuth |-> 0, max_azimuth |-> 0, max_range |-> 0]

\* first sample of a run: if !in_pass { ... }
EnterPassKeepMaxTime(p, t, look) ==
    [p EXCEPT !.in_pass = TRUE, !.pass_start = t, !.aos_azimuth = look.az,
              !.max_elevation = look.el,
              !.max_azimuth = look.az, !.max_range = look.rng]
EnterPass(p, t, look) ==
    [p EXCEPT !.in_pass = TRUE, !.pass_start = t, !.aos_azimuth = look.az,
              !.max_elevation = look.el, !.max_elevation_time = t,
              !.max_azimuth = look.az, !.max_range = look.rng]

\* later sample of a run: if look_angles.elevation > max_elevation { ... }
UpdateMaxOnTie(p, t, look) ==
    IF look.el >= p.max_elevation
    THEN [p EXCEPT !.max_elevation = look.el, !.max_elevation_time = t,
                   !.max_azimuth = look.az, !.max_range = look.rng]
    ELSE p
UpdateMax(p, t, look) ==
    IF look.el > p.max_elevation
    THEN [p EXCEPT !.max_elevation = look.el, !.max_elevation_time = t,
                   !.max_azimuth = look.az, !.max_range = look.rng]
    ELSE p

\* the SatellitePass pushed at the first sample below the threshold
PassFromMaxTime(p, t, look) ==
    [aos_time |-> p.pass_start, los_time |-> t,
     max_elevation |-> p.max_elevation,
     max_elevation_time |-> p.max_elevation_time,
     aos_azimuth |-> p.aos_azimuth, max_azimuth |-> p.max_azimuth,
     los_azimuth |-> look.az,
     duration_seconds |-> t - p.max_elevation_time,
     max_range_km |-> p.max_range]
MakePass(p, t, look) ==
    [aos_time |-> p.pass_start, los_time |-> t,
     max_elevation |-> p.max_elevation,
     max_elevation_time |-> p.max_elevation_time,
     aos_azimuth |-> p.aos_azimuth, max_azimuth |-> p.max_azimuth,
     los_azimuth |-> look.az,
     duration_seconds |-> t - p.pass_start,
     max_range_km |-> p.max_range]

\* the instant was propagated before (only when time_step is 0)
Sampled(t) == \E i \in 1..Len(samples) : samples[i].t = t
LookAt(t) == (CHOOSE i \in 1..Len(samples) : samples[i].t = t)

Bump(n) == IF n < MaxSamples THEN n + 1 ELSE n

\* Ok(passes): a run still in progress is not part of the result
ReturnedWithPartial(p, ps) ==
    IF p.in_pass
    THEN Append(ps, [aos_time |-> p.pass_start, los_time |-> p.current_time,
                     max_elevation |-> p.max_elevation,
                     max_elevation_time |-> p.max_elevation_time,
                     aos_azimuth |-> p.aos_azimuth, max_azimuth |-> p.max_azimuth,
                     los_azimuth |-> p.max_azimuth,
                     duration_seconds |-> p.current_time - p.pass_start,
                     max_range_km |-> p.max_range])
    ELSE ps
Returned(p, ps) == ps

NoResult == [kind |-> "none", days |-> 0, passes |-> << >>]

\* no earlier call
NoPrev == [n |-> 0, result |-> NoResult, samples |-> << >>, failed |-> {}]

\* what the propagator can answer at instant t: what it answered the earlier
\* call at that instant if it did, anything otherwise
Known(t) == \E i \in 1..Len(prev.samples) : prev.samples[i].t = t
Propagated(t) ==
    IF Known(t)
    THEN {prev.samples[CHOOSE i \in 1..Len(prev.samples) : prev.samples[i].t = t].look}
    ELSE Looks

\* the locals and the pass vector a call starts with: let mut passes =
\* Vec::new() and the let mut locals, whatever an earlier call left
LocalsKeptFromLastCall(p, ps) == <<[p EXCEPT !.current_time = 0], ps>>
FreshLocals(p, ps) == <<InitLocals, << >>>>

\* the staleness guard returns the error
PredictStale ==
    /\ pc = "start"
    /\ TleAgeDays(age) > 30
    /\ TleAgeDays(age) > 90
    /\ warned' = TRUE
    /\ result' = [kind |-> "ErrStale", days |-> TleAgeDays(age), passes |-> << >>]
    /\ pc' = "done"
    /\ UNCHANGED <<cfg, age, pp, passes, samples, nsamples, prev>>
    /\ UNCHANGED notSweep

\* Constants::from_elements(elements)? fails
PredictBadElements ==
    /\ pc = "start"
    /\ ~(TleAgeDays(age) > 30 /\ TleAgeDays(age) > 90)
    /\ prev.n = 0 \/ prev.result.kind = "ErrElements"
    /\ warned' = (TleAgeDays(age) > 30)
    /\ result' = [kind |-> "ErrElements", days |-> 0, passes |-> << >>]
    /\ pc' = "done"
    /\ UNCHANGED <<cfg, age, pp, passes, samples, nsamples, prev>>
    /\ UNCHANGED notSweep

\* the guard passes and the sweep begins
PredictBegin ==
    /\ pc = "start"
    /\ ~(TleAgeDays(age) > 30 /\ TleAgeDays(age) > 90)
    /\ prev.n = 0 \/ prev.result.kind # "ErrElements"
    /\ warned' = (TleAgeDays(age) > 30)
    /\ pc' = "sweep"
    /\ UNCHANGED <<cfg, age, pp, passes, samples, nsamples, result, prev>>
    /\ UNCHANGED notSweep

\* one iteration of the loop body on a propagated sample
SweepBody(look) ==
    LET t == pp.current_time
        q == IF look.el >= cfg.min_elevation
             THEN IF ~pp.in_pass THEN EnterPass(pp, t, look)
                                 ELSE UpdateMax(pp, t, look)
             ELSE IF pp.in_pass THEN [pp EXCEPT !.in_pass = FALSE]
                                ELSE pp
    IN  /\ passes' = IF look.el < cfg.min_elevation /\ pp.in_pass
                     THEN Append(passes, MakePass(pp, t, look))
                     ELSE passes
        /\ pp' = [q EXCEPT !.current_time = t + TimeStep(cfg)]
        /\ nsamples' = Bump(nsamples)

\* an iteration whose propagation succeeds
SweepStep ==
    /\ pc = "sweep"
    /\ LoopCond
    /\ pp.current_time \notin prev.failed
    /\ IF Sampled(pp.current_time)
       THEN /\ SweepBody(samples[LookAt(pp.current_time)].look)
            /\ UNCHANGED samples
       ELSE \E look \in Propagated(pp.current_time) :
              /\ SweepBody(look)
              /\ samples' = Append(samples, [t |-> pp.current_time, look |-> look])
    /\ UNCHANGED <<cfg, age, pc, result, warned, prev>>
    /\ UNCHANGED notSweep

\* an iteration whose propagation fails: warn and break
SweepPropFailSkipsSample ==
    /\ pc = "sweep"
    /\ LoopCond
    /\ ~Sampled(pp.current_time)
    /\ ~Known(pp.current_time)
    /\ nsamples' = Bump(nsamples)
    /\ pp' = [pp EXCEPT !.current_time = @ + TimeStep(cfg)]
    /\ UNCHANGED <<cfg, age, pc, passes, samples, result, warned, prev>>
    /\ UNCHANGED notSweep
SweepPropFail ==
    /\ pc = "sweep"
    /\ LoopCond
    /\ ~Sampled(pp.current_time)
    /\ ~Known(pp.current_time)
    /\ nsamples' = Bump(nsamples)
    /\ result' = [kind |-> "Ok", days |-> 0, passes |-> Returned(pp, passes)]
    /\ pc' = "done"
    /\ prev' = [prev EXCEPT !.failed = @ \cup {pp.current_time}]
    /\ UNCHANGED <<cfg, age, pp, passes, samples, warned>>
    /\ UNCHANGED notSweep

\* the loop condition fails: Ok(passes)
SweepExit ==
    /\ pc = "sweep"
    /\ ~LoopCond
    /\ result' = [kind |-> "Ok", days |-> 0, passes |-> Returned(pp, passes)]
    /\ pc' = "done"
    /\ UNCHANGED <<cfg, age, pp, passes, samples, nsamples, warned, prev>>
    /\ UNCHANGED notSweep

\* predict_passes is called again with the same elements, epoch, observer
\* and configuration while Utc::now() reads the same instant; the
\* propagator answers as it did
PredictAgain ==
    /\ pc = "done"
    /\ prev.n = 0
    /\ prev' = [n |-> 1, result |-> result, samples |-> samples, failed |-> prev.failed]
    /\ pc' = "start"
    /\ pp' = FreshLocals(pp, passes)[1]
    /\ passes' = FreshLocals(pp, passes)[2]
    /\ samples' = << >>
    /\ nsamples' = 0
    /\ result' = NoResult
    /\ warned' = FALSE
    /\ UNCHANGED <<cfg, age>>
    /\ UNCHANGED notSweep

PredictNext ==
    \/ PredictStale
    \/ PredictBadElements
    \/ PredictBegin
    \/ SweepStep
    \/ SweepPropFail
    \/ SweepExit
    \/ PredictAgain

-----------------------------------------------------------------------------
(* Epoch resolution: satellite.rs calculate_position /
   calculate_minutes_since_epoch, main.rs calculate_minutes_since_epoch_simple.

   Here instants are half-seconds since 2000-01-01T00:00:00Z, so that
   DateTime::timestamp(), which drops the fraction of a second, is not the
   identity.  A day-of-year (an f64 in the code) is held in half-seconds:
   d stands for d / 172800 days, so 172800 is day 1.0.  Minutes since epoch
   (an f64) are held in half-seconds too: m stands for m / 120 minutes.  *)

\* the resolution of the instants of this part: two to the second
TicksPerSecond == 2

\* DateTime::timestamp(): whole seconds, the fraction dropped
Timestamp(t) == t \div TicksPerSecond

\* NaiveDate::from_ymd_opt(year, 1, 1) at 00:00:00 UTC, for 2000 <= year <= 2060
YearStart(year) ==
    (365 * (year - 2000) + (year - 2000 + 3) \div 4) * SecondsPerDay

CalendarYears == 2020..2030

\* time.year()
YearOf(t) ==
    CHOOSE y \in CalendarYears :
        YearStart(y) <= Timestamp(t) /\ Timestamp(t) < YearStart(y + 1)

\* year_start + Duration::milliseconds((day_of_year - 1.0) * 86400000.0)
year_day_to_datetime(year, day_of_year) ==
    TicksPerSecond * YearStart(year) + (day_of_year - TicksPerSecond * SecondsPerDay)

\* Satellite::calculate_minutes_since_epoch: the nearest of the three anchorings
MinutesSinceCurrentYearEpoch(time, epoch_day_of_year) ==
    time - year_day_to_datetime(YearOf(time), epoch_day_of_year)
calculate_minutes_since_epoch(time, epoch_day_of_year) ==
    LET current_year == YearOf(time)
        epoch_cur == year_day_to_datetime(current_year, epoch_day_of_year)
        epoch_time_prev == year_day_to_datetime(current_year - 1, epoch_day_of_year)
        epoch_time_next == year_day_to_datetime(current_year + 1, epoch_day_of_year)
        diff_current == Abs(Timestamp(time) - Timestamp(epoch_cur))
        diff_prev == Abs(Timestamp(time) - Timestamp(epoch_time_prev))
        diff_next == Abs(Timestamp(time) - Timestamp(epoch_time_next))
        epoch_time == IF diff_prev < diff_current /\ diff_prev < diff_next
                      THEN epoch_time_prev
                      ELSE IF diff_next < diff_current /\ diff_next < diff_prev
                           THEN epoch_time_next
                           ELSE epoch_cur
    IN  time - epoch_time

\* main.rs: time.signed_duration_since(*tle_epoch) in minutes
calculate_minutes_since_epoch_simple(tle_epoch, time) == time - tle_epoch

\* self.elements.epoch() of the sgp4 crate: the epoch in Julian years
\* (365.25 days) since J2000 = 2000-01-01T12:00:00Z.  calculate_position
\* hands this number to calculate_minutes_since_epoch as a day-of-year, so it
\* is held like one: E years read as E days = (epoch - J2000) * 4 / 1461
\* half-seconds (whole ones; the rest is dropped).
elements_epoch(epoch) ==
    LET x == epoch - TicksPerSecond * 12 * 3600
    IN  (x \div 1461) * 4 + ((x % 1461) * 4) \div 1461

\* the epoch fields of the element sets: year and day-of-year 1.0, 100.0,
\* 183.5 and 365.0
EpochYears == {2023, 2024, 2025}
EpochDays ==
    {TicksPerSecond * d : d \in {86400, 100 * 86400, 183 * 86400 + 43200, 365 * 86400}}

\* day-of-year 200.0 and half a second later
LateDays == {TicksPerSecond * 200 * 86400, TicksPerSecond * 200 * 86400 + 1}

\* the instants asked for: 1 January 01:00, day 101, day 200 and day 365.5
\* of 2024 and of 2025
Instants ==
    {year_day_to_datetime(y, TicksPerSecond * d) :
        y \in {2024, 2025},
        d \in {86400 + 3600, 101 * 86400, 200 * 86400, 365 * 86400 + 43200}}

\* the instants about half-way between the epoch anchored to the year before
\* and to the year itself, for the days of LateDays: up to two seconds to
\* either side, by half-seconds
MidInstants ==
    {year_day_to_datetime(y - 1, TicksPerSecond * 200 * 86400)
        + ((TicksPerSecond * (YearStart(y) - YearStart(y - 1))) \div 2) + k :
        y \in {2024, 2025}, k \in -4..4}

\* doy is the day-of-year of the stored epoch
EpochInputs ==
    {[epoch |-> year_day_to_datetime(y, d), doy |-> d, time |-> t,
      live |-> 0, live_done |-> FALSE,
      batch |-> 0, batch_done |-> FALSE,
      near |-> 0, near_done |-> FALSE] :
               y \in EpochYears, d \in EpochDays \cup LateDays,
               t \in Instants \cup MidInstants}

IdleEp ==
    [epoch |-> 0, doy |-> 0, time |-> 0, live |-> 0, live_done |-> FALSE,
     batch |-> 0, batch_done |-> FALSE, near |-> 0, near_done |-> FALSE]

\* Satellite::calculate_position: the minutes handed to the propagator
LiveResolve ==
    /\ ~ep.live_done
    /\ ep' = [ep EXCEPT
                !.live = calculate_minutes_since_epoch(ep.time, elements_epoch(ep.epoch)),
                !.live_done = TRUE]
    /\ UNCHANGED notEpoch

\* predict_passes: the minutes handed to the propagator for the same instant
BatchResolve ==
    /\ ~ep.batch_done
    /\ ep' = [ep EXCEPT
                !.batch = calculate_minutes_since_epoch_simple(ep.epoch, ep.time),
                !.batch_done = TRUE]
    /\ UNCHANGED notEpoch

\* calculate_minutes_since_epoch on the day-of-year of the stored epoch
NearestResolve ==
    /\ ~ep.near_done
    /\ ep' = [ep EXCEPT
                !.near = calculate_minutes_since_epoch(ep.time, ep.doy),
                !.near_done = TRUE]
    /\ UNCHANGED notEpoch

EpochNext == LiveResolve \/ BatchResolve \/ NearestResolve

-----------------------------------------------------------------------------
(* Look angles: pass_prediction.rs calculate_look_angles, observer.rs to_ecef.

   Lengths are metres, angles whole degrees.  The observers, the sidereal
   angles and the satellite positions are chosen so that every sine, cosine,
   norm and inverse function the code evaluates is exact: latitude,
   longitude and GMST are multiples of 90 degrees, and the satellite is a
   whole number of kilometres from the observer along a direction whose
   components are in the ratio 0 : 1 or 3 : 4.  *)

WGS84_A == 6378137

\* the most a range vector of the model measures, in km
MaxRangeKm == 1000

Sin90(d) ==
    CASE d % 360 = 0 -> 0
      [] d % 360 = 90 -> 1
      [] d % 360 = 180 -> 0
      [] d % 360 = 270 -> -1
Cos90(d) == Sin90(d + 90)

\* Observer::to_ecef.  n = A / sqrt(1 - E2 sin^2 lat) is A on the equator and
\* 6399593.626 m at a pole; n (1 - E2) is 6335439.327 m and 6356752.314 m.
to_ecef(lat, lon, alt) ==
    LET n == IF Sin90(lat) = 0 THEN WGS84_A ELSE 6399594
        n1e2 == IF Sin90(lat) = 0 THEN 6335439 ELSE 6356752
    IN  <<(n + alt) * Cos90(lat) * Cos90(lon),
          (n + alt) * Cos90(lat) * Sin90(lon),
          (n1e2 + alt) * Sin90(lat)>>

\* eci_to_ecef: rotation by -gmst about the polar axis
eci_to_ecef(eci, gmst) ==
    <<eci[1] * Cos90(gmst) + eci[2] * Sin90(gmst),
      -eci[1] * Sin90(gmst) + eci[2] * Cos90(gmst),
      eci[3]>>

ISqrt(n) == CHOOSE r \in 0..MaxRangeKm : r * r <= n /\ n < (r + 1) * (r + 1)

\* Vector3::norm() of a vector of whole kilometres given in metres (squared
\* in km, to stay within 32-bit integers)
Norm(x, y, z) ==
    1000 * ISqrt((x \div 1000) * (x \div 1000) + (y \div 1000) * (y \div 1000)
                 + (z \div 1000) * (z \div 1000))

\* (num / den).asin().to_degrees() for the ratios 0, 3/5, 4/5, 1 (to the degree)
AsinDeg(num, den) ==
    LET a == Abs(num)
        d == CASE a = 0 -> 0
               [] a = den -> 90
               [] 5 * a = 3 * den -> 37
               [] 5 * a = 4 * den -> 53
    IN  IF num < 0 THEN -d ELSE d

\* y.atan2(x).to_degrees(), in (-180, 180]
Atan2Deg(y, x) ==
    LET h == Norm(x, y, 0)
    IN  IF x = 0 /\ y = 0 THEN 0
        ELSE IF x > 0 THEN AsinDeg(y, h)
        ELSE IF x = 0 THEN (IF y > 0 THEN 90 ELSE -90)
        ELSE IF y >= 0 THEN 180 - AsinDeg(y, h)
        ELSE -180 - AsinDeg(y, h)

\* The azimuth of calculate_look_angles: east.atan2(north).to_degrees(), with
\* 360.0 added when it is negative.  The model's lengths are whole metres; a
\* satellite position is any triple of doubles, so the eastward component
\* may also be a length far below a metre: trace is the sign of an eastward
\* component of 1e-10 m, which matters only where east is zero.  Due north
\* the arc tangent is then 1.4e-14 degrees in size, and the double nearest
\* to -1.4e-14 + 360.0 is 360.0 itself (the doubles next to 360 are 5.7e-14
\* apart): the value 360 returned here is exactly 360.0.
Azimuth(east, north, trace) ==
    LET az == IF east # 0 \/ trace = 0 THEN Atan2Deg(east, north)
              ELSE IF north > 0 THEN 0
              ELSE IF north = 0 THEN 90 * trace
              ELSE 180 * trace
        negative == az < 0 \/ (east = 0 /\ trace < 0 /\ north > 0)
    IN  IF negative THEN az + 360 ELSE az

calculate_look_angles(sat_pos_eci, observer_ecef, gmst, observer_lat, observer_lon, east_trace) ==
    LET sat_ecef == eci_to_ecef(sat_pos_eci, gmst)
        rx == sat_ecef[1] - observer_ecef[1]
        ry == sat_ecef[2] - observer_ecef[2]
        rz == sat_ecef[3] - observer_ecef[3]
        range_km == Norm(rx, ry, rz) \div 1000
        south == rx * Cos90(observer_lat) * Cos90(observer_lon)
                 + ry * Cos90(observer_lat) * Sin90(observer_lon)
                 - rz * Sin90(observer_lat)
        east == -rx * Sin90(observer_lon) + ry * Cos90(observer_lon)
        zenith == rx * Sin90(observer_lat) * Cos90(observer_lon)
                  + ry * Sin90(observer_lat) * Sin90(observer_lon)
                  + rz * Cos90(observer_lat)
    IN  [azimuth |-> Azimuth(east, -south, east_trace),
         elevation |-> AsinDeg(zenith, range_km * 1000),
         range |-> range_km]

\* the satellite's place relative to the observer, Earth-fixed, in km
KmSteps == {-400, -300, 0, 300, 400}
KmOffsets ==
    {v \in KmSteps \X KmSteps \X KmSteps :
        LET n == v[1] * v[1] + v[2] * v[2] + v[3] * v[3]
        IN  n > 0 /\ ISqrt(n) * ISqrt(n) = n}

\* the inertial position of an Earth-fixed point: rotation by +gmst
EcefToEci(v, gmst) ==
    <<v[1] * Cos90(gmst) - v[2] * Sin90(gmst),
      v[1] * Sin90(gmst) + v[2] * Cos90(gmst),
      v[3]>>

NoLook == [azimuth |-> 0, elevation |-> 0, range |-> 0]

LookInputs ==
    {[lat |-> lat, lon |-> lon, alt |-> alt, gmst |-> g,
             sat |-> EcefToEci(<<to_ecef(lat, lon, alt)[1] + 1000 * v[1],
                                 to_ecef(lat, lon, alt)[2] + 1000 * v[2],
                                 to_ecef(lat, lon, alt)[3] + 1000 * v[3]>>, g),
             trace |-> tr, done |-> FALSE, look |-> NoLook] :
               lat \in {-90, 0, 90}, lon \in {0, 90, 180, 270},
               alt \in {0, 1000}, g \in {0, 90, 180, 270}, v \in KmOffsets,
               tr \in {-1, 0, 1}}

IdleLa ==
    [lat |-> 0, lon |-> 0, alt |-> 0, gmst |-> 0, sat |-> <<0, 0, 0>>,
     trace |-> 0, done |-> FALSE, look |-> NoLook]

\* one call of calculate_look_angles
ComputeLook ==
    /\ ~la.done
    /\ la' = [la EXCEPT
                !.done = TRUE,
                !.look = calculate_look_angles(la.sat, to_ecef(la.lat, la.lon, la.alt),
                                               la.gmst, la.lat, la.lon, la.trace)]
    /\ UNCHANGED notLook

LookNext == ComputeLook

-----------------------------------------------------------------------------
(* The radio heuristics: radio.rs calculate_doppler_shift and
   evaluate_communication_window, on positions as satellite.rs
   calculate_position builds them.

   Elevations are whole degrees, ranges whole km.  velocity_km_s is held in
   thousandths (m/s) and the frequencies in millionths of a MHz (Hz), so the
   code's conversions `* 1000.0` and `* 1_000_000.0` leave the number as it
   is.  The cosine is exact on the elevations used: 3-4-5 angles, 60 and 90
   degrees.  *)

SPEED_OF_LIGHT == 299792458

\* cos(elevation) as <<numerator, denominator>>
CosRatio(el) ==
    CASE el = 0 -> <<1, 1>>
      [] el = 37 -> <<4, 5>>
      [] el = 53 -> <<3, 5>>
      [] el = 60 \/ el = -60 -> <<1, 2>>
      [] el = 90 -> <<0, 1>>

\* <<quotient, remainder>> of a * b by c, for 0 <= a < c and 0 <= b, without
\* forming a * b
RECURSIVE TimesOver(_, _, _)
TimesOver(a, b, c) ==
    IF b = 0 THEN <<0, 0>>
    ELSE LET h == TimesOver(a, b \div 2, c)
             d == 2 * h[2] + (IF b % 2 = 1 THEN a ELSE 0)
         IN  <<2 * h[1] + d \div c, d % c>>

\* the SatellitePosition of calculate_position, as far as the radio reads it
MakePosition(el, rng, vel) ==
    [elevation |-> el, range_km |-> rng, velocity_km_s |-> vel, is_visible |-> el > 0]

\* let radial_velocity = if elevation_rad > 0.0 { v * cos(elevation) } else { 0.0 }
RadialVelocityAtOrAboveHorizon(position) ==
    IF position.elevation >= 0
    THEN (position.velocity_km_s * CosRatio(position.elevation)[1])
             \div CosRatio(position.elevation)[2]
    ELSE 0
RadialVelocity(position) ==
    IF position.elevation > 0
    THEN (position.velocity_km_s * CosRatio(position.elevation)[1])
             \div CosRatio(position.elevation)[2]
    ELSE 0

calculate_doppler_shift(position, downlink_freq_mhz, uplink_freq_mhz) ==
    LET radial_velocity == RadialVelocity(position)
        downlink_shift_hz ==
            -(TimesOver(radial_velocity, downlink_freq_mhz, SPEED_OF_LIGHT)[1])
        uplink_shift_hz ==
            TimesOver(radial_velocity, uplink_freq_mhz, SPEED_OF_LIGHT)[1]
    IN  [downlink_frequency_mhz |-> downlink_freq_mhz,
         downlink_shift_hz |-> downlink_shift_hz,
         downlink_observed_mhz |-> downlink_freq_mhz + downlink_shift_hz,
         uplink_frequency_mhz |-> uplink_freq_mhz,
         uplink_shift_hz |-> uplink_shift_hz,
         uplink_corrected_mhz |-> uplink_freq_mhz + uplink_shift_hz]

\* the signal strength table of evaluate_communication_window
SignalStrengthRangeInclusive(elevation, range_km) ==
    IF elevation >= 45 /\ range_km <= 2000 THEN "Excellent"
    ELSE IF elevation >= 30 /\ range_km <= 2500 THEN "Good"
    ELSE IF elevation >= 15 /\ range_km <= 3000 THEN "Fair"
    ELSE IF elevation >= 5 THEN "Poor"
    ELSE "NoSignal"
SignalStrength(elevation, range_km) ==
    IF elevation >= 45 /\ range_km < 2000 THEN "Excellent"
    ELSE IF elevation >= 30 /\ range_km < 2500 THEN "Good"
    ELSE IF elevation >= 15 /\ range_km < 3000 THEN "Fair"
    ELSE IF elevation >= 5 THEN "Poor"
    ELSE "NoSignal"

\* the value of recommended_mode; "None" is Option::None
RecommendedModeFromFive(elevation) ==
    IF elevation >= 30 THEN "FM/SSB"
    ELSE IF elevation >= 15 THEN "SSB"
    ELSE IF elevation >= 5 THEN "SSB (difficult)"
    ELSE "None"
RecommendedMode(elevation) ==
    IF elevation >= 30 THEN "FM/SSB"
    ELSE IF elevation >= 15 THEN "SSB"
    ELSE IF elevation >= 10 THEN "SSB (difficult)"
    ELSE "None"

\* the early return of evaluate_communication_window
BelowHorizonWindowByElevation(position) == position.elevation < 0
BelowHorizonWindow(position) == ~position.is_visible

\* table is TRUE when the classification table was consulted
evaluate_communication_window(position) ==
    IF BelowHorizonWindow(position)
    THEN [is_viable |-> FALSE, reason |-> "Satellite below horizon",
          signal_strength_estimate |-> "NoSignal", recommended_mode |-> "None",
          table |-> FALSE]
    ELSE LET signal_strength == SignalStrength(position.elevation, position.range_km)
             is_viable == position.elevation >= 10 /\ signal_strength # "NoSignal"
         IN  [is_viable |-> is_viable,
              reason |-> IF is_viable THEN "Good pass" ELSE "Elevation too low",
              signal_strength_estimate |-> signal_strength,
              recommended_mode |-> RecommendedMode(position.elevation),
              table |-> TRUE]

\* inputs of the Doppler computation
DopplerElevations == {-60, 0, 37, 53, 60, 90}
Speeds == {7000, 7500}
Frequencies == {SPEED_OF_LIGHT \div 2, 3 * (SPEED_OF_LIGHT \div 2)}

\* inputs of the link evaluation
WindowElevations == {-5, 0, 1, 4, 5, 9, 10, 14, 15, 29, 30, 44, 45, 50, 90}
WindowRanges == {400, 1500, 1999, 2000, 2499, 2500, 2999, 3000, 4000}

NoDoppler ==
    [downlink_frequency_mhz |-> 0, downlink_shift_hz |-> 0, downlink_observed_mhz |-> 0,
     uplink_frequency_mhz |-> 0, uplink_shift_hz |-> 0, uplink_corrected_mhz |-> 0]

NoWindow ==
    [is_viable |-> FALSE, reason |-> "", signal_strength_estimate |-> "NoSignal",
     recommended_mode |-> "None", table |-> FALSE]

RadioInputs ==
    {[dpos |-> MakePosition(de, 1500, v), fd |-> fd, fu |-> fu,
      doppler |-> NoDoppler, ddone |-> FALSE,
      wpos |-> MakePosition(we, wr, 7500), window |-> NoWindow, wdone |-> FALSE] :
        de \in DopplerElevations, v \in Speeds, fd \in Frequencies, fu \in Frequencies,
        we \in WindowElevations, wr \in WindowRanges}

IdleRd ==
    [dpos |-> MakePosition(0, 0, 0), fd |-> 0, fu |-> 0,
     doppler |-> NoDoppler, ddone |-> TRUE,
     wpos |-> MakePosition(0, 0, 0), window |-> NoWindow, wdone |-> TRUE]

\* one call of calculate_doppler_shift
ComputeDoppler ==
    /\ ~rd.ddone
    /\ rd' = [rd EXCEPT !.ddone = TRUE,
                        !.doppler = calculate_doppler_shift(rd.dpos, rd.fd, rd.fu)]
    /\ UNCHANGED notRadio

\* one call of evaluate_communication_window
EvaluateWindow ==
    /\ ~rd.wdone
    /\ rd' = [rd EXCEPT !.wdone = TRUE,
                        !.window = evaluate_communication_window(rd.wpos)]
    /\ UNCHANGED notRadio

RadioNext ==
    \/ ComputeDoppler
    \/ EvaluateWindow

-----------------------------------------------------------------------------
(* The application: main.rs main / run_app / update_alerts,
   satellite.rs get_next_pass, ui.rs draw_ui.

   Instants are seconds since the start of the process.  Utc::now() is read
   several times in one loop iteration: run_app and update_alerts read it
   first, then get_next_pass reads it once per satellite; the clock may move
   on to the next second between these readings.  *)

\* the loop stops being followed when the clock passes this instant
MaxClock == 60

SatNames == <<"ISS", "NOAA">>

Pass(aos, los, el) == [aos_time |-> aos, los_time |-> los, max_elevation |-> el]

\* pass lists as predict_passes returns them: in sweep order, disjoint
PassLists ==
    {<< >>,
     <<Pass(480, 900, 40)>>,
     <<Pass(900, 1200, 40)>>,
     <<Pass(630, 900, 40)>>,
     <<Pass(31, 91, 40), Pass(151, 400, 40)>>,
     <<Pass(300, 360, 10), Pass(480, 700, 40)>>}

\* config.display, config.alerts and config.radio, the radio disabled
AppConfigs ==
    [show_current_position : BOOLEAN,
     show_all_positions : BOOLEAN,
     alerts_enabled : BOOLEAN,
     alert_before_pass : {10},
     min_elevation_for_alert : {20},
     radio_enabled : {FALSE},
     downlink_frequency_mhz : {SPEED_OF_LIGHT \div 2},
     uplink_frequency_mhz : {3 * (SPEED_OF_LIGHT \div 2)}]

\* config.display.refresh_rate, the wait for a key of one iteration, in seconds
Waits == {30}

SatIdx(a) == 1..Len(a.satellites)

\* the orbit the model follows: where a satellite is found at the successive
\* refreshes (elevation, range, speed), the second satellite one place ahead
\* of the first
Orbit ==
    <<MakePosition(53, 1500, 7500), MakePosition(37, 2800, 7000),
      MakePosition(-60, 4000, 7000)>>
TelemetryAt(i, now) == Orbit[(((now \div 30) + i) % Len(Orbit)) + 1]

\* Option: None and Some(x)
None == << >>
Some(x) == <<x>>

\* the Ok value of Satellite::calculate_position for satellite number i
calculate_position(sat, i, now) ==
    [name |-> sat.name, time |-> now,
     elevation |-> TelemetryAt(i, now).elevation,
     range_km |-> TelemetryAt(i, now).range_km,
     velocity_km_s |-> TelemetryAt(i, now).velocity_km_s,
     is_visible |-> TelemetryAt(i, now).is_visible,
     doppler |-> None, comm_window |-> None]

\* satellites.iter().filter_map(|sat| sat.calculate_position(now, ..).ok()).collect()
\* where ok is the set of satellites whose propagation succeeds
\* at the instant now
RECURSIVE PositionsFrom(_, _, _, _)
PositionsFrom(sats, ok, now, i) ==
    IF i > Len(sats) THEN << >>
    ELSE (IF i \in ok THEN <<calculate_position(sats[i], i, now)>> ELSE << >>)
         \o PositionsFrom(sats, ok, now, i + 1)

\* if config.radio.enabled { for pos in current_positions.iter_mut() {
\*     pos.doppler = Some(..); pos.comm_window = Some(..) } }
WithRadioOfFirst(positions, c) ==
    IF ~c.radio_enabled \/ positions = << >> THEN positions
    ELSE [k \in 1..Len(positions) |->
            [positions[k] EXCEPT
                !.doppler = Some(calculate_doppler_shift(positions[1],
                                     c.downlink_frequency_mhz, c.uplink_frequency_mhz)),
                !.comm_window = Some(evaluate_communication_window(positions[1]))]]
WithRadio(positions, c) ==
    IF ~c.radio_enabled \/ positions = << >> THEN positions
    ELSE [k \in 1..Len(positions) |->
            [positions[k] EXCEPT
                !.doppler = Some(calculate_doppler_shift(positions[k],
                                     c.downlink_frequency_mhz, c.uplink_frequency_mhz)),
                !.comm_window = Some(evaluate_communication_window(positions[k]))]]
Positions(sats, ok, now) == PositionsFrom(sats, ok, now, 1)

\* Satellite::get_next_pass: self.passes.iter().find(|pass| pass.aos_time > now),
\* as an index into passes, 0 for None
get_latest_pass(ps, now) ==
    LET later == {i \in 1..Len(ps) : ps[i].aos_time > now}
    IN  IF later = {} THEN 0 ELSE CHOOSE i \in later : \A j \in later : i >= j
get_next_pass(ps, now) ==
    LET later == {i \in 1..Len(ps) : ps[i].aos_time > now}
    IN  IF later = {} THEN 0 ELSE CHOOSE i \in later : \A j \in later : i <= j

\* Duration::num_minutes(): whole minutes, truncated toward zero
NumMinutesRoundUp(secs) == IF secs >= 0 THEN (secs + 59) \div 60 ELSE -((-secs) \div 60)
NumMinutes(secs) == IF secs >= 0 THEN secs \div 60 ELSE -((-secs) \div 60)

\* if minutes_until > 0 && minutes_until <= config.alerts.alert_before_pass
WithinLeadAboveOne(minutes_until, c) ==
    minutes_until > 1 /\ minutes_until <= c.alert_before_pass
WithinLead(minutes_until, c) ==
    minutes_until > 0 /\ minutes_until <= c.alert_before_pass

\* the body of the loop of update_alerts for one satellite: the alerts pushed
AlertsOf(sat, c, now, now_next) ==
    LET i == get_next_pass(sat.passes, now_next)
    IN  IF i = 0 THEN << >>
        ELSE IF sat.passes[i].max_elevation < c.min_elevation_for_alert THEN << >>
        ELSE LET minutes_until == NumMinutes(sat.passes[i].aos_time - now)
             IN  IF WithinLead(minutes_until, c)
                 THEN <<[satellite_name |-> sat.name, pass |-> sat.passes[i],
                         time_until_minutes |-> minutes_until]>>
                 ELSE << >>

\* update_alerts; the clock moves to the next second after the get_next_pass
\* call of satellite number tick_at (never, when tick_at is the last)
RECURSIVE AlertsFrom(_, _, _, _)
AlertsFrom(a, now, tick_at, i) ==
    IF i > Len(a.satellites) THEN << >>
    ELSE AlertsOf(a.satellites[i], a.config, now, IF i > tick_at THEN now + 1 ELSE now)
         \o AlertsFrom(a, now, tick_at, i + 1)
update_alerts(a, now, tick_at) ==
    IF ~a.config.alerts_enabled THEN a.alerts ELSE AlertsFrom(a, now, tick_at, 1)

\* draw_ui panics: draw_realtime_positions slices
\* current_positions[selected_satellite..=selected_satellite]
DrawPanics(a) ==
    /\ a.config.show_current_position
    /\ ~a.config.show_all_positions
    /\ a.selected_satellite + 1 > Len(a.current_positions)

\* the first half of a Normal iteration: positions, radio, alerts
Refreshed(ok, tick_at) ==
    LET a1 == [app EXCEPT !.current_positions =
                              WithRadio(Positions(app.satellites, ok, clock), app.config)]
    IN  [a1 EXCEPT !.alerts = update_alerts(a1, clock, tick_at)]

\* what predict_passes can return for one satellite
PredictReturns ==
    {[kind |-> "Ok", days |-> 0, passes |-> p] : p \in PassLists}
        \cup {[kind |-> "ErrStale", days |-> 95, passes |-> << >>],
               [kind |-> "ErrElements", days |-> 0, passes |-> << >>]}

\* what predict_passes returns for the satellites tracked: one satellite or two
Fleets ==
    {<<r>> : r \in PredictReturns}
        \cup {<<r, q>> : r \in PredictReturns, q \in PredictReturns}

\* the application after parse_multiple_tles: Satellite::new leaves passes empty
AppInputs ==
    {[satellites |-> [i \in 1..n |-> [name |-> SatNames[i], passes |-> << >>]],
      current_positions |-> << >>,
      selected_satellite |-> 0,
      config |-> c,
      alerts |-> << >>,
      mode |-> "Normal"] :
        n \in {Len(f) : f \in Fleets}, c \in AppConfigs}

\* the same with the radio enabled or not, for the refresh with radio
\* calculations: the current position is shown
RefreshConfigs ==
    [show_current_position : {TRUE},
     show_all_positions : BOOLEAN,
     alerts_enabled : BOOLEAN,
     alert_before_pass : {10},
     min_elevation_for_alert : {20},
     radio_enabled : BOOLEAN,
     downlink_frequency_mhz : {SPEED_OF_LIGHT \div 2},
     uplink_frequency_mhz : {3 * (SPEED_OF_LIGHT \div 2)}]

RefreshReturns ==
    {[kind |-> "Ok", days |-> 0, passes |-> <<Pass(480, 900, 40)>>],
     [kind |-> "Ok", days |-> 0, passes |-> << >>],
     [kind |-> "ErrElements", days |-> 0, passes |-> << >>]}

RefreshFleets ==
    {<<r>> : r \in RefreshReturns}
        \cup {<<r, q>> : r \in RefreshReturns, q \in RefreshReturns}

RefreshInputs ==
    {[satellites |-> [i \in 1..n |-> [name |-> SatNames[i], passes |-> << >>]],
      current_positions |-> << >>,
      selected_satellite |-> 0,
      config |-> c,
      alerts |-> << >>,
      mode |-> "Normal"] :
        n \in {Len(f) : f \in RefreshFleets}, c \in RefreshConfigs}

\* the same with the alerts enabled and passes that begin within the first
\* minutes of the run, for the alerts of consecutive cycles
AlertConfigs ==
    [show_current_position : BOOLEAN,
     show_all_positions : {FALSE},
     alerts_enabled : {TRUE},
     alert_before_pass : {10},
     min_elevation_for_alert : {20},
     radio_enabled : {FALSE},
     downlink_frequency_mhz : {SPEED_OF_LIGHT \div 2},
     uplink_frequency_mhz : {3 * (SPEED_OF_LIGHT \div 2)}]

AlertReturns ==
    {[kind |-> "Ok", days |-> 0, passes |-> <<Pass(75, 110, 40)>>],
     [kind |-> "Ok", days |-> 0, passes |-> <<Pass(130, 400, 40)>>],
     [kind |-> "Ok", days |-> 0, passes |-> <<Pass(480, 900, 40)>>]}

AlertFleets ==
    {<<r>> : r \in AlertReturns}
        \cup {<<r, q>> : r \in AlertReturns, q \in AlertReturns}

AlertInputs ==
    {[satellites |-> [i \in 1..n |-> [name |-> SatNames[i], passes |-> << >>]],
      current_positions |-> << >>,
      selected_satellite |-> 0,
      config |-> c,
      alerts |-> << >>,
      mode |-> "Normal"] :
        n \in {Len(f) : f \in AlertFleets}, c \in AlertConfigs}

IdleApp ==
    [satellites |-> << >>, current_positions |-> << >>, selected_satellite |-> 0,
     config |-> [show_current_position |-> FALSE, show_all_positions |-> FALSE,
                 alerts_enabled |-> FALSE, alert_before_pass |-> 10,
                 min_elevation_for_alert |-> 20, radio_enabled |-> FALSE,
                 downlink_frequency_mhz |-> 0, uplink_frequency_mhz |-> 0],
     alerts |-> << >>, mode |-> "Normal"]

\* drawn: the Normal screen was drawn; now: the instant read by the
\* iteration that drew it last; before: the same for the draw before that
NoUpdate ==
    [done |-> FALSE, now |-> 0, tick_at |-> 0, ok |-> {}, drawn |-> FALSE, before |-> -1]

IdleBatch == [i |-> 1, returns |-> << >>]

\* match predict_passes(..) { Ok(passes) => satellite.passes = passes,
\*                            Err(e) => satellite.passes = Vec::new() }
StoredAbandoningOnError(sats, i, r) ==
    IF r.kind = "Ok"
    THEN [sats EXCEPT ![i].passes = r.passes]
    ELSE [j \in 1..Len(sats) |-> [sats[j] EXCEPT !.passes = << >>]]
Stored(sats, i, r) ==
    IF r.kind = "Ok"
    THEN [sats EXCEPT ![i].passes = r.passes]
    ELSE [sats EXCEPT ![i].passes = << >>]

\* main: one iteration of the loop that predicts the passes of each satellite
BatchPredict ==
    /\ apc = "startup"
    /\ batch.i <= Len(app.satellites)
    /\ app' = [app EXCEPT !.satellites = Stored(@, batch.i, batch.returns[batch.i])]
    /\ batch' = [batch EXCEPT !.i = @ + 1]
    /\ UNCHANGED <<apc, clock, upd>>
    /\ UNCHANGED notApp

\* main: the initial positions, then run_app
AppStartup ==
    /\ apc = "startup"
    /\ batch.i > Len(app.satellites)
    /\ \E ok \in SUBSET SatIdx(app) :
          /\ app' = [app EXCEPT !.current_positions =
                                    WithRadio(Positions(app.satellites, ok, clock),
                                              app.config)]
          /\ upd' = [upd EXCEPT !.ok = ok]
    /\ apc' = "running"
    /\ UNCHANGED <<clock, batch>>
    /\ UNCHANGED notApp

\* a Normal iteration up to the draw, which does not panic; what follows is
\* the key handling, given as the new value of app
NormalCycle(ok, tick_at, wait, after) ==
    /\ apc = "running"
    /\ app.mode = "Normal"
    /\ clock + wait <= MaxClock
    /\ ~DrawPanics(Refreshed(ok, tick_at))
    /\ app' = after
    /\ upd' = [done |-> app.config.alerts_enabled, now |-> clock, tick_at |-> tick_at,
               ok |-> ok, drawn |-> TRUE,
               before |-> IF upd.drawn THEN upd.now ELSE -1]
    /\ clock' = clock + wait
    /\ UNCHANGED batch
    /\ UNCHANGED notApp

\* no key within the refresh interval, or a key without a binding
NormalIdle ==
    \E ok \in SUBSET SatIdx(app), tick_at \in 0..Len(app.satellites), wait \in Waits :
        /\ NormalCycle(ok, tick_at, wait, Refreshed(ok, tick_at))
        /\ apc' = apc

\* 'q' or Esc
NormalQuit ==
    \E ok \in SUBSET SatIdx(app), tick_at \in 0..Len(app.satellites), wait \in Waits :
        /\ NormalCycle(ok, tick_at, wait, Refreshed(ok, tick_at))
        /\ apc' = "quit"

\* 'c'
NormalEnterConfig ==
    \E ok \in SUBSET SatIdx(app), tick_at \in 0..Len(app.satellites), wait \in Waits :
        /\ NormalCycle(ok, tick_at, wait,
                       [Refreshed(ok, tick_at) EXCEPT !.mode = "SatelliteConfig"])
        /\ apc' = apc

\* Up or 'k'
NormalUp ==
    \E ok \in SUBSET SatIdx(app), tick_at \in 0..Len(app.satellites), wait \in Waits :
        /\ NormalCycle(ok, tick_at, wait,
                       [Refreshed(ok, tick_at) EXCEPT !.selected_satellite =
                            IF @ > 0 THEN @ - 1 ELSE @])
        /\ apc' = apc

\* Down or 'j'
NormalDown ==
    \E ok \in SUBSET SatIdx(app), tick_at \in 0..Len(app.satellites), wait \in Waits :
        /\ NormalCycle(ok, tick_at, wait,
                       [Refreshed(ok, tick_at) EXCEPT !.selected_satellite =
                            IF @ < Len(app.satellites) - 1 THEN @ + 1 ELSE @])
        /\ apc' = apc

\* Home
NormalHome ==
    \E ok \in SUBSET SatIdx(app), tick_at \in 0..Len(app.satellites), wait \in Waits :
        /\ NormalCycle(ok, tick_at, wait,
                       [Refreshed(ok, tick_at) EXCEPT !.selected_satellite = 0])
        /\ apc' = apc

\* End
NormalEnd ==
    \E ok \in SUBSET SatIdx(app), tick_at \in 0..Len(app.satellites), wait \in Waits :
        /\ NormalCycle(ok, tick_at, wait,
                       [Refreshed(ok, tick_at) EXCEPT !.selected_satellite =
                            Len(app.satellites) - 1])
        /\ apc' = apc

\* a Normal iteration whose draw panics
NormalCrash ==
    /\ apc = "running"
    /\ app.mode = "Normal"
    /\ \E ok \in SUBSET SatIdx(app), tick_at \in 0..Len(app.satellites) :
          /\ DrawPanics(Refreshed(ok, tick_at))
          /\ app' = Refreshed(ok, tick_at)
          /\ upd' = [done |-> app.config.alerts_enabled, now |-> clock,
                     tick_at |-> tick_at, ok |-> ok, drawn |-> TRUE,
                     before |-> IF upd.drawn THEN upd.now ELSE -1]
    /\ apc' = "crashed"
    /\ UNCHANGED <<clock, batch>>
    /\ UNCHANGED notApp

\* a SatelliteConfig iteration that stays in the editor
ConfigStay ==
    /\ apc = "running"
    /\ app.mode = "SatelliteConfig"
    /\ \E wait \in Waits : clock + wait <= MaxClock /\ clock' = clock + wait
    /\ UNCHANGED <<app, apc, upd, batch>>
    /\ UNCHANGED notApp

\* Esc or 'q' in the list of the editor: back to Normal
ConfigReturn ==
    /\ apc = "running"
    /\ app.mode = "SatelliteConfig"
    /\ \E wait \in Waits : clock + wait <= MaxClock /\ clock' = clock + wait
    /\ app' = [app EXCEPT !.mode = "Normal"]
    /\ UNCHANGED <<apc, upd, batch>>
    /\ UNCHANGED notApp

AppNext ==
    \/ BatchPredict
    \/ AppStartup
    \/ NormalIdle
    \/ NormalQuit
    \/ NormalEnterConfig
    \/ NormalUp
    \/ NormalDown
    \/ NormalHome
    \/ NormalEnd
    \/ NormalCrash
    \/ ConfigStay
    \/ ConfigReturn

-----------------------------------------------------------------------------
(* Epoch decoding: main.rs parse_multiple_tles (the epoch field) and
   main.rs year_day_to_datetime.

   The field YYDDD.dddddddd is held as the integer YYDDD and the eight
   decimals as an integer (units of 1e-8 day, 0.864 ms).  The decoded epoch
   is held as whole seconds since 2000-01-01T00:00:00Z and milliseconds.
   The offset into the year is computed by the code in double precision and
   cast to whole milliseconds with `as i64`: when the exact offset is a
   whole number of milliseconds and the field is not a binary fraction, the
   rounded product can fall just below it, and the cast then gives one
   millisecond less.  *)

\* let year_2digit = (epoch_val / 1000.0).floor() as i32
Year2Digit(yyddd) == yyddd \div 1000

\* let day_of_year = epoch_val % 1000.0, its whole part
DayOfYear(yyddd) == yyddd % 1000

\* let full_year = if year_2digit >= 57 { 1900 + .. } else { 2000 + .. }
FullYearPivotAbove57(year_2digit) ==
    IF year_2digit > 57 THEN 1900 + year_2digit ELSE 2000 + year_2digit
FullYear(year_2digit) ==
    IF year_2digit >= 57 THEN 1900 + year_2digit ELSE 2000 + year_2digit

\* the eight decimals are a binary fraction: the double arithmetic is exact
BinaryFraction(frac) == frac % 390625 = 0

\* (days_into_year * 86400000.0) as i64, the part of the decimals: the
\* values the cast can give
FractionMillis(frac) ==
    LET qr == TimesOver(864, frac, 1000)
    IN  IF qr[2] = 0 /\ ~BinaryFraction(frac) /\ qr[1] > 0
        THEN {qr[1], qr[1] - 1}
        ELSE {qr[1]}

\* year_start + Duration::milliseconds(..): the instant as seconds and
\* milliseconds, for day_of_year = day + frac / 1e8 and the cast giving
\* (day - 1) days and ms milliseconds
EpochFromYearDay(year, day, ms) ==
    [secs |-> YearStart(year) + (day - 1) * SecondsPerDay + ms \div 1000,
     millis |-> ms % 1000]

\* the fields decoded
EpochFields == {1, 24001, 24060, 24123, 24366, 56364, 57001, 58120, 99365, 23365}
EpochDecimals == {0, 1, 10000000, 25000000, 50000000, 51782528, 70000000, 99999999}

NoEpoch == [secs |-> 0, millis |-> 0]

TleInputs ==
    {[yyddd |-> w, frac |-> f, year |-> 0, epoch |-> NoEpoch, done |-> FALSE] :
        w \in EpochFields, f \in EpochDecimals}

IdleTle == [yyddd |-> 0, frac |-> 0, year |-> 0, epoch |-> NoEpoch, done |-> TRUE]

\* parse_multiple_tles decodes the epoch of one tracked satellite
DecodeEpoch ==
    /\ ~tle.done
    /\ \E ms \in FractionMillis(tle.frac) :
          tle' = [tle EXCEPT
                    !.done = TRUE,
                    !.year = FullYear(Year2Digit(tle.yyddd)),
                    !.epoch = EpochFromYearDay(FullYear(Year2Digit(tle.yyddd)),
                                               DayOfYear(tle.yyddd), ms)]
    /\ UNCHANGED notTle

TleNext == DecodeEpoch

-----------------------------------------------------------------------------
(* The scan of a TLE file: main.rs parse_multiple_tles.  A line is known by
   its first character ("" for the empty line, "N" for any character other
   than 1 and 2), by its trimmed text when it stands as a name, and by
   whether the element parser accepts it as a line of an element set.
   usize values are 64-bit two's complement patterns, read here as signed
   integers: len - 2 wraps to -2 and -1, the largest unsigned values. *)

EmptyLine == [first |-> "", text |-> "", ok |-> FALSE]
NameLine(n) == [first |-> "N", text |-> n, ok |-> FALSE]
Line1(ok) == [first |-> "1", text |-> "1", ok |-> ok]
Line2 == [first |-> "2", text |-> "2", ok |-> TRUE]

\* Elements::from_tle on lines[i + 1], lines[i + 2]
from_tle(l1, l2) == l1.ok /\ l2.ok

\* the pieces files are made of: single lines and whole triples
Chunks ==
    {<<EmptyLine>>, <<NameLine("ISS")>>, <<Line1(TRUE)>>, <<Line2>>,
     <<NameLine("ISS"), Line1(TRUE), Line2>>,
     <<NameLine("NOAA"), Line1(TRUE), Line2>>,
     <<NameLine("ISS"), Line1(FALSE), Line2>>}

MaxChunks == 3

RECURSIVE FilesOf(_)
FilesOf(n) ==
    IF n = 0 THEN {<< >>}
    ELSE FilesOf(n - 1) \cup {f \o c : f \in FilesOf(n - 1), c \in Chunks}

\* config.satellites: tracked_satellites and max_satellites
TrackConfigs ==
    {[tracked_satellites |-> {}, max_satellites |-> 1],
     [tracked_satellites |-> {}, max_satellites |-> 10],
     [tracked_satellites |-> {"ISS"}, max_satellites |-> 10]}

\* overflow checks on (debug profile) or off (release profile)
Builds == {"debug", "release"}

Panic == [kind |-> "panic", satellites |-> << >>]

\* a < b on usize
UsizeLess(a, b) == IF (a < 0) = (b < 0) THEN a < b ELSE b < 0

\* should_track
ShouldTrack(name, sats, c) ==
    IF c.tracked_satellites = {}
    THEN Len(sats) < c.max_satellites
    ELSE name \in c.tracked_satellites

\* the loop `while i < limit`, i counted from 0; an index at or past
\* lines.len() panics, and && stops at the first false operand
RECURSIVE Scan(_, _, _, _, _)
Scan(lines, c, i, sats, limit) ==
    IF ~UsizeLess(i, limit) THEN [kind |-> "Ok", satellites |-> sats]
    ELSE IF i >= Len(lines) THEN Panic
    ELSE IF lines[i + 1].first = "" THEN Scan(lines, c, i + 1, sats, limit)
    ELSE IF i + 1 >= Len(lines) THEN Panic
    ELSE IF lines[i + 2].first # "1" THEN Scan(lines, c, i + 1, sats, limit)
    ELSE IF i + 2 >= Len(lines) THEN Panic
    ELSE IF lines[i + 3].first # "2" THEN Scan(lines, c, i + 1, sats, limit)
    ELSE IF ShouldTrack(lines[i + 1].text, sats, c) /\ from_tle(lines[i + 2], lines[i + 3])
         THEN Scan(lines, c, i + 3,
                   Append(sats, [name |-> lines[i + 1].text, at |-> i]), limit)
         ELSE Scan(lines, c, i + 3, sats, limit)

\* lines.len() - 2: a panic with overflow checks, a wrapped value without
ScanAll(lines, c, build) ==
    IF Len(lines) < 2 /\ build = "debug" THEN Panic
    ELSE Scan(lines, c, 0, << >>, Len(lines) - 2)

\* parse_multiple_tles: the scan, then the error when no satellite was kept
parse_multiple_tles(lines, c, build) ==
    LET r == ScanAll(lines, c, build)
    IN  IF r.kind = "Ok" /\ r.satellites = << >>
        THEN [kind |-> "ErrNoValid", satellites |-> << >>]
        ELSE r

TleFileInputs ==
    {[lines |-> f, config |-> c, build |-> b, done |-> FALSE,
      result |-> [kind |-> "none", satellites |-> << >>]] :
        f \in FilesOf(MaxChunks), c \in TrackConfigs, b \in Builds}

IdleTf ==
    [lines |-> << >>, config |-> [tracked_satellites |-> {}, max_satellites |-> 10],
     build |-> "debug", done |-> TRUE,
     result |-> [kind |-> "none", satellites |-> << >>]]

ParseFile ==
    /\ ~tf.done
    /\ tf' = [tf EXCEPT !.done = TRUE,
                        !.result = parse_multiple_tles(tf.lines, tf.config, tf.build)]
    /\ UNCHANGED notFile

FileNext == ParseFile

-----------------------------------------------------------------------------
(* The satellite database: database.rs.  A String is the sequence of its
   characters and an Option is None or Some(x).  SatelliteDetails keeps one
   field of each kind: name and tle_line1 (String; tle_line2 is stored and
   read like tle_line1), notes (Option<String>; launch_date, launch_site,
   country_of_origin, operator and satellite_type are stored and read like
   notes) and downlink_frequency_mhz (Option<f64>, whole MHz; the uplink
   frequency is stored and read like it).  The statements are executed by
   DuckDB (database.rs 2); the table satellite_details is the set of its
   rows, whose id is never NULL (PRIMARY KEY) and whose names differ
   (UNIQUE). *)

Null == << >>

\* the characters of the strings of the model
SatA == <<"A">>
Sat1 == <<"1">>

DefaultDetails ==
    [id |-> None, name |-> << >>, tle_line1 |-> << >>,
     downlink_frequency_mhz |-> None, notes |-> None]

\* the row that holds the fields of d under the key id
Row(id, d) == [d EXCEPT !.id = id]

\* the SatelliteDetails a SELECT builds from a row: id: Some(row.get(0)?)
DetailsOf(r) == [r EXCEPT !.id = Some(r.id)]

\* Result<T>: Ok(value) or Err; rows is the table after the call
Ok(ret, rows) == [ok |-> TRUE, ret |-> ret, rows |-> rows]
Err(rows) == [ok |-> FALSE, ret |-> -1, rows |-> rows]

\* The id of a row inserted by a statement that names no id: the DEFAULT of
\* the column.  `id INTEGER PRIMARY KEY` declares none, and DuckDB has no
\* implicit row-id alias or auto-increment (a sequence with
\* DEFAULT nextval(...) would be needed), so the value is NULL.
OmittedId == Null

\* The scalar functions of the engine that the statements call.
\* last_insert_rowid() is a function of SQLite; DuckDB has none of that name.
EngineFunctions == {"COUNT"}

\* create: INSERT INTO satellite_details (name, ...) VALUES (...), then
\* SELECT last_insert_rowid().  `?` returns the error of either statement;
\* the INSERT is in its own transaction and stays if only the SELECT fails.
create(rows, d) ==
    LET inserted == rows \cup {Row(OmittedId[1], d)}
    IN  IF OmittedId = Null \/ (\E r \in rows : r.name = d.name)
        THEN Err(rows)
        ELSE IF "last_insert_rowid" \notin EngineFunctions
             THEN Err(inserted)
             ELSE Ok(OmittedId[1], inserted)

\* read_by_name / read_by_id: SELECT ... WHERE name = ? / WHERE id = ?;
\* QueryReturnedNoRows is Ok(None)
read_by_name(rows, name) ==
    IF \E r \in rows : r.name = name
    THEN Some(DetailsOf(CHOOSE r \in rows : r.name = name))
    ELSE None

read_by_id(rows, id) ==
    IF \E r \in rows : r.id = id
    THEN Some(DetailsOf(CHOOSE r \in rows : r.id = id))
    ELSE None

\* update: Ok(false) without an id; else UPDATE ... SET name = ?, ... WHERE
\* id = ?, an error when the new name is the name of another row, and
\* Ok(affected > 0)
UpdateKeepsNotes(rows, d) ==
    LET hit == {r \in rows : d.id # None /\ r.id = d.id[1]}
    IN  IF d.id = None \/ hit = {}
        THEN Ok(0, rows)
        ELSE IF \E r \in rows \ hit : r.name = d.name
             THEN Err(rows)
             ELSE Ok(1, (rows \ hit) \cup
                        {[Row(d.id[1], d) EXCEPT !.notes = r.notes] : r \in hit})

update(rows, d) ==
    LET hit == {r \in rows : d.id # None /\ r.id = d.id[1]}
    IN  IF d.id = None \/ hit = {}
        THEN Ok(0, rows)
        ELSE IF \E r \in rows \ hit : r.name = d.name
             THEN Err(rows)
             ELSE Ok(1, (rows \ hit) \cup {Row(d.id[1], d)})

\* delete: DELETE FROM satellite_details WHERE id = ?, Ok(affected > 0)
delete(rows, id) ==
    LET hit == {r \in rows : r.id = id}
    IN  Ok(IF hit = {} THEN 0 ELSE 1, rows \ hit)

\* the ids and the fields of the calls
DbIds == 1..3
DetailsInputs ==
    [id : {None} \cup {Some(i) : i \in DbIds},
     name : {SatA, Sat1},
     tle_line1 : {Sat1},
     downlink_frequency_mhz : {None, Some(1)},
     notes : {None, Some(SatA)}]

\* The tables a database file can hold when it is opened (database.rs
\* 47-52, CREATE TABLE IF NOT EXISTS): none yet, or rows written with
\* explicit ids.
StoredRows ==
    {[id |-> 1, name |-> SatA, tle_line1 |-> SatA,
      downlink_frequency_mhz |-> Some(1), notes |-> None],
     [id |-> 2, name |-> Sat1, tle_line1 |-> << >>,
      downlink_frequency_mhz |-> None, notes |-> Some(SatA)]}

Tables == SUBSET StoredRows

NoCall(rows) ==
    [rows |-> rows, op |-> "none", d |-> DefaultDetails, key |-> 0,
     ok |-> TRUE, ret |-> 0, before |-> rows]

IdleDb == NoCall({})

Called(op, d, key, r) ==
    [rows |-> r.rows, op |-> op, d |-> d, key |-> key,
     ok |-> r.ok, ret |-> r.ret, before |-> db.rows]

DbCreate ==
    /\ \E d \in DetailsInputs : db' = Called("create", d, 0, create(db.rows, d))
    /\ UNCHANGED notDb

DbUpdate ==
    /\ \E d \in DetailsInputs : db' = Called("update", d, 0, update(db.rows, d))
    /\ UNCHANGED notDb

DbDelete ==
    /\ \E id \in DbIds : db' = Called("delete", DefaultDetails, id, delete(db.rows, id))
    /\ UNCHANGED notDb

DbNext == DbCreate \/ DbUpdate \/ DbDelete

-----------------------------------------------------------------------------
(* The satellite configuration editor: main.rs SatelliteConfigState,
   handle_satellite_config_input and the 'c' key of run_app.  ConfigField
   keeps one field of each kind, in the order of the eleven of the code:
   Name (String; TleLine1 and TleLine2 are edited like it),
   DownlinkFrequency (Option<f64>, like UplinkFrequency) and Notes
   (Option<String>, like the five fields from LaunchDate to SatelliteType). *)

ConfigFields == <<"Name", "DownlinkFrequency", "Notes">>

FieldIndex(field) == CHOOSE k \in 1..Len(ConfigFields) : ConfigFields[k] = field

\* ConfigField::next / prev: the cycle of the fields
NextField(field) == ConfigFields[(FieldIndex(field) % Len(ConfigFields)) + 1]
PrevField(field) ==
    ConfigFields[((FieldIndex(field) + Len(ConfigFields) - 2) % Len(ConfigFields)) + 1]

\* format!("{:.3}", f) of the frequencies of the model
Format3(f) == <<"1", ".", "0", "0", "0">>

\* value.parse::<f64>().ok() on the strings of the model: "1", "1.", "1.0",
\* "1.00" and "1.000" are 1.0; "" and "A" do not parse
ParseF64(value) ==
    IF value # << >> /\ value = SubSeq(Format3(1), 1, Len(value)) THEN Some(1) ELSE None

\* what the input buffer can hold: the strings above
Buffers ==
    {<< >>, SatA, Sat1} \cup {SubSeq(Format3(1), 1, n) : n \in 1..Len(Format3(1))}

\* the characters typed
Chars == {"A"}

get_field_value(d, field) ==
    CASE field = "Name" -> d.name
      [] field = "DownlinkFrequency" ->
            IF d.downlink_frequency_mhz = None THEN << >>
            ELSE Format3(d.downlink_frequency_mhz[1])
      [] field = "Notes" -> IF d.notes = None THEN << >> ELSE d.notes[1]

set_field_value(d, field, value) ==
    CASE field = "Name" -> [d EXCEPT !.name = value]
      [] field = "DownlinkFrequency" ->
            [d EXCEPT !.downlink_frequency_mhz = ParseF64(value)]
      [] field = "Notes" ->
            [d EXCEPT !.notes = IF value = << >> THEN None ELSE Some(value)]

\* read_all: SELECT ... ORDER BY name; the names of the model in byte order
Collation == <<Sat1, SatA>>

RECURSIVE ReadFrom(_, _)
ReadFrom(rows, k) ==
    IF k > Len(Collation) THEN << >>
    ELSE (IF \E r \in rows : r.name = Collation[k]
          THEN <<DetailsOf(CHOOSE r \in rows : r.name = Collation[k])>>
          ELSE << >>) \o ReadFrom(rows, k + 1)

read_all(rows) == ReadFrom(rows, 1)

\* SatelliteConfigState::load_from_database
load_from_database(e, rows) ==
    LET sats == read_all(rows)
    IN  [e EXCEPT !.satellites = sats,
                  !.selected_index =
                      IF @ >= Len(sats) /\ sats # << >> THEN Len(sats) - 1 ELSE @]

\* if state.editing_satellite.name.is_empty()
NameNeverMissing(d) == FALSE
NameMissing(d) == d.name = << >>

\* the keys: those with a binding in some mode, and one without
Keys == {"Esc", "Tab", "BackTab", "Up", "Down", "Enter", "Char", "Backspace",
         "a", "d", "F1"}

\* the database record after a call made by the editor
EditorCall(op, d, key, r) ==
    [rows |-> r.rows, op |-> op, d |-> d, key |-> key,
     ok |-> r.ok, ret |-> r.ret, before |-> db.rows]

\* ConfigEditMode::List
HandleList(e, key) ==
    CASE key = "Esc" -> [e |-> [e EXCEPT !.mode = "Normal"], db |-> db]
      [] key = "Up" ->
            [e |-> [e EXCEPT !.selected_index = IF @ > 0 THEN @ - 1 ELSE @], db |-> db]
      [] key = "Down" ->
            [e |-> [e EXCEPT !.selected_index =
                        IF @ < (IF Len(e.satellites) = 0 THEN 0 ELSE Len(e.satellites) - 1)
                        THEN @ + 1 ELSE @],
             db |-> db]
      [] key = "Enter" ->
            IF e.satellites = << >> THEN [e |-> e, db |-> db]
            ELSE LET sat == e.satellites[e.selected_index + 1]
                 IN  [e |-> [e EXCEPT !.editing_satellite = sat,
                                      !.current_field = "Name",
                                      !.input_buffer = get_field_value(sat, "Name"),
                                      !.edit_mode = "Edit"],
                      db |-> db]
      [] key = "a" ->
            [e |-> [e EXCEPT !.editing_satellite = DefaultDetails,
                             !.current_field = "Name",
                             !.input_buffer = << >>,
                             !.edit_mode = "Add"],
             db |-> db]
      [] key = "d" ->
            IF e.satellites = << >> \/ e.satellites[e.selected_index + 1].id = None
            THEN [e |-> e, db |-> db]
            ELSE LET id == e.satellites[e.selected_index + 1].id[1]
                     r == delete(db.rows, id)
                 IN  [e |-> load_from_database([e EXCEPT !.status_message = Some("Deleted")],
                                               r.rows),
                      db |-> EditorCall("delete", DefaultDetails, id, r)]
      [] OTHER -> [e |-> e, db |-> db]

\* Tab, Down, BackTab, Up in Edit and Add: store the buffer, move to field
MoveTo(e, field) ==
    LET d == set_field_value(e.editing_satellite, e.current_field, e.input_buffer)
    IN  [e EXCEPT !.editing_satellite = d,
                  !.current_field = field,
                  !.input_buffer = get_field_value(d, field)]

\* Enter in Edit and Add
Save(e) ==
    LET d == set_field_value(e.editing_satellite, e.current_field, e.input_buffer)
        e1 == [e EXCEPT !.editing_satellite = d]
        r == IF e.edit_mode = "Add" THEN create(db.rows, d) ELSE update(db.rows, d)
    IN  IF NameMissing(d)
        THEN [e |-> [e1 EXCEPT !.status_message = Some("Error: Name is required")],
              db |-> db]
        ELSE [e |-> IF r.ok
                    THEN [load_from_database([e1 EXCEPT !.status_message = Some("Saved")],
                                             r.rows)
                             EXCEPT !.edit_mode = "List"]
                    ELSE [e1 EXCEPT !.status_message = Some("Error saving")],
              db |-> EditorCall(IF e.edit_mode = "Add" THEN "create" ELSE "update",
                                d, 0, r)]

\* ConfigEditMode::Edit | ConfigEditMode::Add
HandleEdit(e, key) ==
    CASE key = "Esc" ->
            [e |-> [e EXCEPT !.edit_mode = "List",
                             !.status_message = Some("Edit cancelled")],
             db |-> db]
      [] key \in {"Tab", "Down"} -> [e |-> MoveTo(e, NextField(e.current_field)), db |-> db]
      [] key \in {"BackTab", "Up"} -> [e |-> MoveTo(e, PrevField(e.current_field)), db |-> db]
      [] key = "Enter" -> Save(e)
      [] key \in {"Char", "a", "d"} ->
            [e |-> [e EXCEPT !.input_buffer =
                        Append(@, IF key = "Char" THEN "A" ELSE key)],
             db |-> db]
      [] key = "Backspace" ->
            [e |-> [e EXCEPT !.input_buffer =
                        IF @ = << >> THEN @ ELSE SubSeq(@, 1, Len(@) - 1)],
             db |-> db]
      [] OTHER -> [e |-> e, db |-> db]

handle_satellite_config_input(e, key) ==
    IF e.edit_mode = "List" THEN HandleList(e, key) ELSE HandleEdit(e, key)

EditorInputs ==
    {[mode |-> "SatelliteConfig", edit_mode |-> "List", current_field |-> "Name",
      editing_satellite |-> DefaultDetails, input_buffer |-> << >>,
      status_message |-> None, satellites |-> read_all(t), selected_index |-> 0,
      key |-> "c"] : t \in Tables}

IdleEd ==
    [mode |-> "Normal", edit_mode |-> "List", current_field |-> "Name",
     editing_satellite |-> DefaultDetails, input_buffer |-> << >>,
     status_message |-> None, satellites |-> << >>, selected_index |-> 0,
     key |-> "none"]

\* one iteration of run_app in SatelliteConfig mode in which a key is read;
\* the characters typed are those that keep the buffer among Buffers
HandleKey ==
    /\ ed.mode = "SatelliteConfig"
    /\ \E key \in Keys :
          LET r == handle_satellite_config_input(ed, key)
          IN  /\ r.e.input_buffer \in Buffers
              /\ ed' = [r.e EXCEPT !.key = key]
              /\ db' = r.db
    /\ UNCHANGED notEditor

\* 'c' in Normal mode: load the list and enter the editor
OpenEditor ==
    /\ ed.mode = "Normal"
    /\ ed' = [load_from_database(ed, db.rows) EXCEPT !.mode = "SatelliteConfig",
                                                     !.key = "c"]
    /\ UNCHANGED db
    /\ UNCHANGED notEditor

EditorNext == HandleKey \/ OpenEditor

-----------------------------------------------------------------------------
(* Specifications: one per component, the others idle *)

IdleCfg == [num_passes |-> 0, min_elevation |-> 10, search_days |-> 2, time_step |-> 0]

\* predict_passes is called on some configuration and some element set
PredictInit ==
    /\ cfg \in PredictionConfigs
    /\ age \in Ages
    /\ pc = "start"
    /\ pp = InitLocals
    /\ passes = << >>
    /\ samples = << >>
    /\ nsamples = 0
    /\ result = NoResult
    /\ warned = FALSE
    /\ prev = NoPrev
    /\ ep = IdleEp
    /\ la = IdleLa
    /\ app = IdleApp
    /\ apc = "quit"
    /\ clock = 0
    /\ upd = NoUpdate
    /\ batch = IdleBatch
    /\ rd = IdleRd
    /\ tle = IdleTle
    /\ db = IdleDb
    /\ ed = IdleEd
    /\ tf = IdleTf

SpecPredict == PredictInit /\ [][PredictNext]_vars

\* the loop has no yield point: an enabled step is taken
FairPredict == PredictInit /\ [][PredictNext]_vars /\ WF_vars(PredictNext)

EpochInit ==
    /\ cfg = IdleCfg
    /\ age = 0
    /\ pc = "done"
    /\ pp = InitLocals
    /\ passes = << >>
    /\ samples = << >>
    /\ nsamples = 0
    /\ result = NoResult
    /\ warned = FALSE
    /\ prev = NoPrev
    /\ ep \in EpochInputs
    /\ la = IdleLa
    /\ app = IdleApp
    /\ apc = "quit"
    /\ clock = 0
    /\ upd = NoUpdate
    /\ batch = IdleBatch
    /\ rd = IdleRd
    /\ tle = IdleTle
    /\ db = IdleDb
    /\ ed = IdleEd
    /\ tf = IdleTf

SpecEpoch == EpochInit /\ [][EpochNext]_vars

LookInit ==
    /\ cfg = IdleCfg
    /\ age = 0
    /\ pc = "done"
    /\ pp = InitLocals
    /\ passes = << >>
    /\ samples = << >>
    /\ nsamples = 0
    /\ result = NoResult
    /\ warned = FALSE
    /\ prev = NoPrev
    /\ ep = IdleEp
    /\ la \in LookInputs
    /\ app = IdleApp
    /\ apc = "quit"
    /\ clock = 0
    /\ upd = NoUpdate
    /\ batch = IdleBatch
    /\ rd = IdleRd
    /\ tle = IdleTle
    /\ db = IdleDb
    /\ ed = IdleEd
    /\ tf = IdleTf

SpecLook == LookInit /\ [][LookNext]_vars

AppInit ==
    /\ cfg = IdleCfg
    /\ age = 0
    /\ pc = "done"
    /\ pp = InitLocals
    /\ passes = << >>
    /\ samples = << >>
    /\ nsamples = 0
    /\ result = NoResult
    /\ warned = FALSE
    /\ prev = NoPrev
    /\ ep = IdleEp
    /\ la = IdleLa
    /\ app \in AppInputs
    /\ apc = "startup"
    /\ clock = 0
    /\ upd = NoUpdate
    /\ batch \in {[i |-> 1, returns |-> f] : f \in {g \in Fleets : Len(g) = Len(app.satellites)}}
    /\ rd = IdleRd
    /\ tle = IdleTle
    /\ db = IdleDb
    /\ ed = IdleEd
    /\ tf = IdleTf

SpecApp == AppInit /\ [][AppNext]_vars

RefreshInit ==
    /\ cfg = IdleCfg
    /\ age = 0
    /\ pc = "done"
    /\ pp = InitLocals
    /\ passes = << >>
    /\ samples = << >>
    /\ nsamples = 0
    /\ result = NoResult
    /\ warned = FALSE
    /\ prev = NoPrev
    /\ ep = IdleEp
    /\ la = IdleLa
    /\ app \in RefreshInputs
    /\ apc = "startup"
    /\ clock = 0
    /\ upd = NoUpdate
    /\ batch \in {[i |-> 1, returns |-> f] : f \in {g \in RefreshFleets : Len(g) = Len(app.satellites)}}
    /\ rd = IdleRd
    /\ tle = IdleTle
    /\ db = IdleDb
    /\ ed = IdleEd
    /\ tf = IdleTf

SpecRefresh == RefreshInit /\ [][AppNext]_vars

AlertInit ==
    /\ cfg = IdleCfg
    /\ age = 0
    /\ pc = "done"
    /\ pp = InitLocals
    /\ passes = << >>
    /\ samples = << >>
    /\ nsamples = 0
    /\ result = NoResult
    /\ warned = FALSE
    /\ prev = NoPrev
    /\ ep = IdleEp
    /\ la = IdleLa
    /\ app \in AlertInputs
    /\ apc = "startup"
    /\ clock = 0
    /\ upd = NoUpdate
    /\ batch \in {[i |-> 1, returns |-> f] : f \in {g \in AlertFleets : Len(g) = Len(app.satellites)}}
    /\ rd = IdleRd
    /\ tle = IdleTle
    /\ db = IdleDb
    /\ ed = IdleEd
    /\ tf = IdleTf

SpecAlerts == AlertInit /\ [][AppNext]_vars

RadioInit ==
    /\ cfg = IdleCfg
    /\ age = 0
    /\ pc = "done"
    /\ pp = InitLocals
    /\ passes = << >>
    /\ samples = << >>
    /\ nsamples = 0
    /\ result = NoResult
    /\ warned = FALSE
    /\ prev = NoPrev
    /\ ep = IdleEp
    /\ la = IdleLa
    /\ app = IdleApp
    /\ apc = "quit"
    /\ clock = 0
    /\ upd = NoUpdate
    /\ batch = IdleBatch
    /\ rd \in RadioInputs
    /\ tle = IdleTle
    /\ db = IdleDb
    /\ ed = IdleEd
    /\ tf = IdleTf

SpecRadio == RadioInit /\ [][RadioNext]_vars

TleInit ==
    /\ cfg = IdleCfg
    /\ age = 0
    /\ pc = "done"
    /\ pp = InitLocals
    /\ passes = << >>
    /\ samples = << >>
    /\ nsamples = 0
    /\ result = NoResult
    /\ warned = FALSE
    /\ prev = NoPrev
    /\ ep = IdleEp
    /\ la = IdleLa
    /\ app = IdleApp
    /\ apc = "quit"
    /\ clock = 0
    /\ upd = NoUpdate
    /\ batch = IdleBatch
    /\ rd = IdleRd
    /\ tle \in TleInputs
    /\ db = IdleDb
    /\ ed = IdleEd
    /\ tf = IdleTf

SpecTle == TleInit /\ [][TleNext]_vars

DbInit ==
    /\ cfg = IdleCfg
    /\ age = 0
    /\ pc = "done"
    /\ pp = InitLocals
    /\ passes = << >>
    /\ samples = << >>
    /\ nsamples = 0
    /\ result = NoResult
    /\ warned = FALSE
    /\ prev = NoPrev
    /\ ep = IdleEp
    /\ la = IdleLa
    /\ app = IdleApp
    /\ apc = "quit"
    /\ clock = 0
    /\ upd = NoUpdate
    /\ batch = IdleBatch
    /\ rd = IdleRd
    /\ tle = IdleTle
    /\ db \in {NoCall(t) : t \in Tables}
    /\ ed = IdleEd
    /\ tf = IdleTf

SpecDb == DbInit /\ [][DbNext]_vars

EditorInit ==
    /\ cfg = IdleCfg
    /\ age = 0
    /\ pc = "done"
    /\ pp = InitLocals
    /\ passes = << >>
    /\ samples = << >>
    /\ nsamples = 0
    /\ result = NoResult
    /\ warned = FALSE
    /\ prev = NoPrev
    /\ ep = IdleEp
    /\ la = IdleLa
    /\ app = IdleApp
    /\ apc = "quit"
    /\ clock = 0
    /\ upd = NoUpdate
    /\ batch = IdleBatch
    /\ rd = IdleRd
    /\ tle = IdleTle
    /\ db \in {NoCall(t) : t \in Tables}
    /\ ed \in {e \in EditorInputs : e.satellites = read_all(db.rows)}
    /\ tf = IdleTf

SpecEditor == EditorInit /\ [][EditorNext]_vars

FileInit ==
    /\ cfg = IdleCfg
    /\ age = 0
    /\ pc = "done"
    /\ pp = InitLocals
    /\ passes = << >>
    /\ samples = << >>
    /\ nsamples = 0
    /\ result = NoResult
    /\ warned = FALSE
    /\ prev = NoPrev
    /\ ep = IdleEp
    /\ la = IdleLa
    /\ app = IdleApp
    /\ apc = "quit"
    /\ clock = 0
    /\ upd = NoUpdate
    /\ batch = IdleBatch
    /\ rd = IdleRd
    /\ tle = IdleTle
    /\ db = IdleDb
    /\ ed = IdleEd
    /\ tf \in TleFileInputs

SpecFile == FileInit /\ [][FileNext]_vars

-----------------------------------------------------------------------------
(* Properties of predict_passes, checked under SpecPredict *)

PassIdx == 1..Len(passes)
SampleIdx == 1..Len(samples)
Above(i) == samples[i].look.el >= cfg.min_elevation
\* the samples of the run of pass p: from aos_time up to, excluding, los_time
RunOf(p) == {i \in SampleIdx : p.aos_time <= samples[i].t /\ samples[i].t < p.los_time}
SetMax(S) == CHOOSE m \in S : \A x \in S : x <= m

\* C1 as stated: for every emitted pass aos_time < max_elevation_time <
\* los_time, both strict.
C1_StrictOrder ==
    \A i \in PassIdx :
        /\ passes[i].aos_time < passes[i].max_elevation_time
        /\ passes[i].max_elevation_time < passes[i].los_time

\* C1 amended: for every emitted pass aos_time <= max_elevation_time <
\* los_time; the peak may be the AOS sample itself.
C1_WeakOrder ==
    \A i \in PassIdx :
        /\ passes[i].aos_time <= passes[i].max_elevation_time
        /\ passes[i].max_elevation_time < passes[i].los_time

\* a pass whose peak came after its AOS sample, on a sweep that did not start in the pass
C1_Witness ==
    \E i \in PassIdx :
        /\ 0 < passes[i].aos_time
        /\ passes[i].aos_time < passes[i].max_elevation_time

\* C4 as stated: predict_passes fails with the stale error, before any
\* sample, exactly when the epoch age exceeds 90 days.
C4_FailsAbove90Days ==
    pc # "start" =>
        /\ (result.kind = "ErrStale") <=> (Abs(age) > 90 * 86400)
        /\ result.kind = "ErrStale" => nsamples = 0 /\ samples = << >>

\* C4 amended: the age is counted in whole days, |now - epoch| div 86400 s:
\* the call fails, before any sample and naming that whole number of days,
\* exactly when the age is at least 91 days; it warns exactly from 31 days.
C4_FailsFrom91Days ==
    pc # "start" =>
        /\ (result.kind = "ErrStale") <=> (Abs(age) >= 91 * 86400)
        /\ result.kind = "ErrStale" =>
              /\ nsamples = 0 /\ samples = << >>
              /\ result.days * 86400 <= Abs(age)
              /\ Abs(age) < (result.days + 1) * 86400
        /\ warned <=> (Abs(age) >= 31 * 86400)

\* a sweep that ran to its end on elements between 90 and 91 days old
C4_Witness ==
    /\ pc = "done" /\ result.kind = "Ok" /\ nsamples > 0
    /\ Abs(age) > 90 * 86400
    /\ warned

\* C7: the sweep terminates for every prediction configuration.
C7_Terminates == <>(pc = "done")

\* C8: max_elevation of a pass is the greatest elevation of its run, at
\* least min_elevation, and max_elevation_time, max_azimuth, max_range_km
\* are those of the earliest sample of the run that attains it.
C8_MaxOfRun ==
    \A k \in PassIdx :
        LET p == passes[k]
            run == RunOf(p)
            top == SetMax({samples[i].look.el : i \in run})
        IN  /\ run # {}
            /\ p.max_elevation = top
            /\ p.max_elevation >= cfg.min_elevation
            /\ \E i \in run :
                  /\ samples[i].look.el = top
                  /\ \A j \in run : samples[j].look.el = top => i <= j
                  /\ p.max_elevation_time = samples[i].t
                  /\ p.max_azimuth = samples[i].look.az
                  /\ p.max_range_km = samples[i].look.rng

\* a pass whose maximum is attained twice, at different azimuths
C8_Witness ==
    \E k \in PassIdx : \E i, j \in RunOf(passes[k]) :
        /\ i < j
        /\ samples[i].look.el = passes[k].max_elevation
        /\ samples[j].look.el = passes[k].max_elevation
        /\ samples[i].look.az # samples[j].look.az

\* C9: duration_seconds = los_time - aos_time, aos_time is the first sample
\* of the run at or above min_elevation and los_time the first sample after
\* it below min_elevation.
C9_Duration ==
    \A k \in PassIdx :
        LET p == passes[k]
        IN  /\ p.duration_seconds = p.los_time - p.aos_time
            /\ \E a, l \in SampleIdx :
                  /\ a < l
                  /\ samples[a].t = p.aos_time
                  /\ samples[l].t = p.los_time
                  /\ \A i \in a..(l - 1) : Above(i)
                  /\ ~Above(l)
                  /\ a > 1 => ~Above(a - 1)

\* a pass whose run has more than one sample and whose peak is not its first
C9_Witness ==
    \E k \in PassIdx :
        /\ passes[k].duration_seconds > TimeStep(cfg)
        /\ passes[k].max_elevation_time > passes[k].aos_time

\* the completed runs of the sweep: the samples below the threshold that
\* follow a sample at or above it
CompletedRuns == {l \in SampleIdx : l > 1 /\ ~Above(l) /\ Above(l - 1)}

\* C10: the call returns exactly the runs whose LOS sample was reached
\* inside the window; a run still above the threshold at the end of the
\* window is not returned, and a sweep with no completed run returns
\* Ok(empty).
C10_OnlyCompletedRuns ==
    (pc = "done" /\ result.kind \notin {"ErrStale", "ErrElements"}) =>
        /\ result.kind = "Ok"
        /\ Len(result.passes) = Cardinality(CompletedRuns)
        /\ \A k \in 1..Len(result.passes) :
              \E l \in CompletedRuns :
                  /\ samples[l].t = result.passes[k].los_time
                  /\ samples[l].t < EndTime(cfg)
        /\ CompletedRuns = {} => result.passes = << >>

\* the window ended inside a run that followed a completed pass
C10_Witness ==
    /\ pc = "done" /\ result.kind = "Ok"
    /\ pp.in_pass /\ pp.current_time >= EndTime(cfg)
    /\ Len(result.passes) = 1

\* an iteration ran without adding a sample: its propagation failed
PropagationFailed ==
    /\ nsamples > Len(samples)
    /\ TimeStep(cfg) > 0 \/ samples = << >>

C19_StopsAtNumPasses ==
    /\ Len(passes) <= cfg.num_passes
    /\ Len(result.passes) <= cfg.num_passes
    /\ \A k \in PassIdx : k > 1 => passes[k - 1].los_time < passes[k].aos_time
    /\ \A i \in SampleIdx : samples[i].t = (i - 1) * TimeStep(cfg)
    /\ \A k \in PassIdx :
          \E l \in CompletedRuns :
              /\ samples[l].t = passes[k].los_time
              /\ Cardinality({m \in CompletedRuns : m <= l}) = k
    /\ (cfg.num_passes > 0 /\ Len(passes) = cfg.num_passes) =>
          /\ samples[Len(samples)].t = passes[Len(passes)].los_time
          /\ nsamples = Len(samples)
    /\ cfg.num_passes = 0 =>
          /\ nsamples = 0
          /\ samples = << >>
          /\ pc = "done" => result.passes = << >>

\* the call returned at its num_passes-th pass with part of the window left
C19_Witness ==
    /\ pc = "done"
    /\ result.kind = "Ok"
    /\ cfg.num_passes = 1
    /\ Len(result.passes) = 1
    /\ pp.current_time < EndTime(cfg)

-----------------------------------------------------------------------------
(* Properties of the epoch resolution, checked under SpecEpoch *)

\* C3: for an instant in the calendar year of the stored epoch, the live
\* path and the batch path hand the propagator the same minutes since epoch.
C3_SameYearAgree ==
    (ep.live_done /\ ep.batch_done /\ YearOf(ep.time) = YearOf(ep.epoch)) =>
        ep.live = ep.batch

\* the magnitudes of the minutes since the epoch anchored to the year
\* before, the year of the instant and the year after
CandidateMagnitudes ==
    {Abs(ep.time - year_day_to_datetime(y, ep.doy)) :
        y \in {YearOf(ep.time) - 1, YearOf(ep.time), YearOf(ep.time) + 1}}

\* C21 as stated: the magnitude of the minutes returned by
\* calculate_minutes_since_epoch never exceeds that of any of the three
\* candidate anchorings.
C21_NearestOfThree ==
    ep.near_done =>
        /\ Abs(ep.near) \in CandidateMagnitudes
        /\ \A m \in CandidateMagnitudes : Abs(ep.near) <= m

\* C21: calculate_minutes_since_epoch returns the minutes since one of the
\* three candidate anchorings, the one nearest by the difference of the
\* whole-second timestamps: its magnitude exceeds that of no candidate by
\* two seconds or more, and exceeds none when the instant and the
\* day-of-year are whole seconds.
C21_NearestByTimestamp ==
    ep.near_done =>
        /\ Abs(ep.near) \in CandidateMagnitudes
        /\ \A m \in CandidateMagnitudes : Abs(ep.near) < m + 2 * TicksPerSecond
        /\ (ep.time % TicksPerSecond = 0 /\ ep.doy % TicksPerSecond = 0) =>
              \A m \in CandidateMagnitudes : Abs(ep.near) <= m

\* the epoch anchored to the year before the instant's is chosen
C21_Witness ==
    /\ ep.near_done
    /\ ep.near = ep.time - year_day_to_datetime(YearOf(ep.time) - 1, ep.doy)
    /\ Abs(ep.near) < Abs(ep.time - year_day_to_datetime(YearOf(ep.time), ep.doy))

-----------------------------------------------------------------------------
(* Properties of the look angles, checked under SpecLook *)

\* the range vector of the computation, Earth-fixed
RangeVector ==
    LET s == eci_to_ecef(la.sat, la.gmst)
        o == to_ecef(la.lat, la.lon, la.alt)
    IN  <<s[1] - o[1], s[2] - o[2], s[3] - o[3]>>

\* the observer's local vertical (the normal of the ellipsoid)
Up == <<Cos90(la.lat) * Cos90(la.lon), Cos90(la.lat) * Sin90(la.lon), Sin90(la.lat)>>

\* C2: a satellite on the observer's local vertical has elevation 90 degrees;
\* at latitude 0, longitude 0, altitude 0 and GMST 0, a satellite at
\* (R + h, 0, 0) has elevation 90 degrees and range h.
C2_ZenithIs90 ==
    la.done =>
        /\ \A h \in {300, 400} :
              RangeVector = <<1000 * h * Up[1], 1000 * h * Up[2], 1000 * h * Up[3]>>
                  => la.look.elevation = 90
        /\ \A h \in {300, 400} :
              (la.lat = 0 /\ la.lon = 0 /\ la.alt = 0 /\ la.gmst = 0
               /\ la.sat = <<WGS84_A + 1000 * h, 0, 0>>)
                  => la.look.elevation = 90 /\ la.look.range = h

\* C17: every azimuth returned by calculate_look_angles satisfies
\* 0 <= azimuth < 360.
C17_AzimuthInRange ==
    la.done => 0 <= la.look.azimuth /\ la.look.azimuth < 360

-----------------------------------------------------------------------------
(* Properties of the application, checked under SpecApp *)

\* C5: the refresh loop never crashes, whatever propagation fails,
\* whichever satellite is selected and whatever the display configuration.
C5_NoCrash == apc # "crashed"

AlertsOn(name) == {k \in 1..Len(app.alerts) : app.alerts[k].satellite_name = name}

\* C6 as stated: after update_alerts, a satellite has an alert exactly when
\* its nearest pass strictly after now has max_elevation >= the threshold
\* and a time until AOS greater than 0 and at most alert_before_pass
\* minutes; time_until_minutes is that time in minutes.
C6_AlertIffWithinLead ==
    upd.done =>
        \A i \in SatIdx(app) :
            LET s == app.satellites[i]
                c == app.config
                later == {k \in 1..Len(s.passes) : s.passes[k].aos_time > upd.now}
                next == CHOOSE k \in later :
                            \A j \in later : s.passes[k].aos_time <= s.passes[j].aos_time
                until == s.passes[next].aos_time - upd.now
            IN  /\ AlertsOn(s.name) # {} <=>
                      /\ later # {}
                      /\ s.passes[next].max_elevation >= c.min_elevation_for_alert
                      /\ until > 0
                      /\ until <= 60 * c.alert_before_pass
                /\ \A k \in AlertsOn(s.name) :
                      /\ app.alerts[k].pass = s.passes[next]
                      /\ 60 * app.alerts[k].time_until_minutes <= until
                      /\ until < 60 * app.alerts[k].time_until_minutes + 60

\* C6 amended: the pass considered is the first in list order whose AOS is
\* strictly after the clock as get_next_pass reads it (at or after the now
\* of update_alerts), and the time until AOS is counted from the now of
\* update_alerts in whole minutes, truncated: a satellite has an alert
\* exactly when that pass exists, has max_elevation >= the threshold and
\* 1 <= minutes <= alert_before_pass, and time_until_minutes is that number
\* of minutes; at most one alert per satellite.
C6_AlertIffWholeMinutes ==
    upd.done =>
        \A i \in SatIdx(app) :
            LET s == app.satellites[i]
                c == app.config
                now_next == IF i > upd.tick_at THEN upd.now + 1 ELSE upd.now
                later == {k \in 1..Len(s.passes) : s.passes[k].aos_time > now_next}
                next == CHOOSE k \in later : \A j \in later : k <= j
                until == s.passes[next].aos_time - upd.now
            IN  /\ AlertsOn(s.name) # {} <=>
                      /\ later # {}
                      /\ s.passes[next].max_elevation >= c.min_elevation_for_alert
                      /\ until >= 60
                      /\ until < 60 * (c.alert_before_pass + 1)
                /\ Cardinality(AlertsOn(s.name)) <= 1
                /\ \A k \in AlertsOn(s.name) :
                      /\ app.alerts[k].pass = s.passes[next]
                      /\ 60 * app.alerts[k].time_until_minutes <= until
                      /\ until < 60 * app.alerts[k].time_until_minutes + 60

\* an alert for a pass whose AOS is more than alert_before_pass minutes away
C6_Witness ==
    /\ upd.done
    /\ \E k \in 1..Len(app.alerts) :
          /\ app.alerts[k].time_until_minutes = app.config.alert_before_pass
          /\ app.alerts[k].pass.aos_time - upd.now > 60 * app.config.alert_before_pass

\* C12: a failure for one satellite leaves the results of every other one
\* alone.  At start-up each satellite already predicted holds exactly what
\* predict_passes returned for it (nothing on an error), whatever was
\* returned for the others; at start-up and in every refresh each satellite
\* whose own propagation succeeded has its position in current_positions,
\* which holds nothing else.
C12_Isolation ==
    /\ \A y \in SatIdx(app) :
          y < batch.i =>
              app.satellites[y].passes =
                  IF batch.returns[y].kind = "Ok" THEN batch.returns[y].passes
                                                  ELSE << >>
    /\ apc # "startup" =>
          /\ \A y \in upd.ok :
                \E k \in 1..Len(app.current_positions) :
                    app.current_positions[k].name = app.satellites[y].name
          /\ Len(app.current_positions) = Cardinality(upd.ok)

\* after a live refresh: the first satellite failed in the batch and in the
\* refresh, the second one has its passes and its position
C12_Witness ==
    /\ apc = "running" /\ clock > 0
    /\ Len(app.satellites) = 2
    /\ batch.returns[1].kind # "Ok"
    /\ app.satellites[2].passes # << >>
    /\ upd.ok = {2}
    /\ Len(app.current_positions) = 1

\* a pass that would be alerted on if it were the one considered, at the now
\* of the cycle
Qualifies(p) ==
    /\ p.max_elevation >= app.config.min_elevation_for_alert
    /\ NumMinutes(p.aos_time - upd.now) > 0
    /\ NumMinutes(p.aos_time - upd.now) <= app.config.alert_before_pass

\* C22 as stated: in each alert cycle there is at most one alert per
\* satellite, and the only pass considered is the earliest pass whose
\* aos_time is strictly after the now from which the cycle computes
\* time_until_minutes: if that pass does not qualify the satellite has no
\* alert, even when a later pass would qualify.
C22_NextAfterCycleNow ==
    upd.done =>
        \A i \in SatIdx(app) :
            LET s == app.satellites[i]
                later == {k \in 1..Len(s.passes) : s.passes[k].aos_time > upd.now}
                next == CHOOSE k \in later :
                            \A j \in later : s.passes[k].aos_time <= s.passes[j].aos_time
            IN  /\ Cardinality(AlertsOn(s.name)) <= 1
                /\ \A k \in AlertsOn(s.name) :
                      later # {} /\ app.alerts[k].pass = s.passes[next]
                /\ (later # {} /\ ~Qualifies(s.passes[next])) => AlertsOn(s.name) = {}

\* C22: in each alert cycle there is at most one alert per satellite, and
\* the only pass considered is the first pass of the satellite's list whose
\* aos_time is strictly after the clock as get_next_pass reads it, a reading
\* taken at or after the now from which the cycle computes
\* time_until_minutes: if that pass does not qualify the satellite has no
\* alert, even when a later pass would qualify.
C22_NextAfterOwnReading ==
    upd.done =>
        \A i \in SatIdx(app) :
            LET s == app.satellites[i]
                now_next == IF i > upd.tick_at THEN upd.now + 1 ELSE upd.now
                later == {k \in 1..Len(s.passes) : s.passes[k].aos_time > now_next}
                next == CHOOSE k \in later : \A j \in later : k <= j
            IN  /\ Cardinality(AlertsOn(s.name)) <= 1
                /\ \A k \in AlertsOn(s.name) :
                      later # {} /\ app.alerts[k].pass = s.passes[next]
                /\ (later # {} /\ ~Qualifies(s.passes[next])) => AlertsOn(s.name) = {}

\* the next pass of a satellite is too low, a later one would qualify, and
\* the satellite has no alert
C22_Witness ==
    /\ upd.done
    /\ \E i \in SatIdx(app) :
          LET s == app.satellites[i]
          IN  /\ Len(s.passes) = 2
              /\ s.passes[1].aos_time > upd.now + 1
              /\ ~Qualifies(s.passes[1])
              /\ Qualifies(s.passes[2])
              /\ AlertsOn(s.name) = {}

\* C20: whenever the Normal screen is drawn, current_positions, the doppler
\* and comm_window of each position and the alert list were all recomputed
\* after the previous draw, in the iteration that draws; every position has
\* doppler and comm_window both present when the radio is enabled and both
\* absent when it is not, each computed from the elevation, range and speed
\* of that same position.
C20_FreshSnapshot ==
    upd.drawn =>
        /\ upd.now > upd.before
        /\ Len(app.current_positions) = Cardinality(upd.ok)
        /\ \A k \in 1..Len(app.current_positions) :
              LET p == app.current_positions[k]
                  c == app.config
              IN  /\ p.time = upd.now
                  /\ \E i \in upd.ok :
                        /\ p.name = app.satellites[i].name
                        /\ p.elevation = TelemetryAt(i, upd.now).elevation
                        /\ p.range_km = TelemetryAt(i, upd.now).range_km
                        /\ p.velocity_km_s = TelemetryAt(i, upd.now).velocity_km_s
                  /\ c.radio_enabled =>
                        /\ p.doppler = Some(calculate_doppler_shift(p,
                                            c.downlink_frequency_mhz, c.uplink_frequency_mhz))
                        /\ p.comm_window = Some(evaluate_communication_window(p))
                  /\ ~c.radio_enabled => p.doppler = None /\ p.comm_window = None
        /\ app.config.alerts_enabled =>
              app.alerts = AlertsFrom(app, upd.now, upd.tick_at, 1)
        /\ ~app.config.alerts_enabled => app.alerts = << >>

\* a second draw with the radio enabled: two positions at different
\* elevations, one with a Doppler shift, and an alert
C20_Witness ==
    /\ upd.drawn
    /\ upd.before >= 0
    /\ app.config.radio_enabled
    /\ Len(app.current_positions) = 2
    /\ app.current_positions[1].elevation # app.current_positions[2].elevation
    /\ app.current_positions[2].doppler # None
    /\ app.current_positions[2].doppler[1].downlink_shift_hz < 0
    /\ app.current_positions[1].comm_window # None
    /\ ~app.current_positions[1].comm_window[1].is_viable
    /\ app.alerts # << >>

-----------------------------------------------------------------------------
(* Properties of the radio heuristics, checked under SpecRadio *)

\* C13: for a visible position the class is the first matching row of
\* elevation >= 45 and range < 2000: Excellent; elevation >= 30 and
\* range < 2500: Good; elevation >= 15 and range < 3000: Fair;
\* elevation >= 5: Poor; otherwise NoSignal.  is_viable holds exactly when
\* elevation >= 10 and the class is not NoSignal.  recommended_mode is FM/SSB
\* from 30 degrees, SSB from 15, SSB (difficult) from 10, none below.
C13_WindowTable ==
    (rd.wdone /\ rd.wpos.is_visible) =>
        LET e == rd.wpos.elevation
            r == rd.wpos.range_km
            w == rd.window
            class == w.signal_strength_estimate
        IN  /\ class = "Excellent" <=> (e >= 45 /\ r < 2000)
            /\ class = "Good" <=> (~(e >= 45 /\ r < 2000) /\ e >= 30 /\ r < 2500)
            /\ class = "Fair" <=> (~(e >= 30 /\ r < 2500) /\ e >= 15 /\ r < 3000)
            /\ class = "Poor" <=> (~(e >= 15 /\ r < 3000) /\ e >= 5)
            /\ class = "NoSignal" <=> e < 5
            /\ w.is_viable <=> (e >= 10 /\ class # "NoSignal")
            /\ w.recommended_mode = "FM/SSB" <=> e >= 30
            /\ w.recommended_mode = "SSB" <=> (15 <= e /\ e < 30)
            /\ w.recommended_mode = "SSB (difficult)" <=> (10 <= e /\ e < 15)
            /\ w.recommended_mode = "None" <=> e < 10
            /\ (e = 50 /\ r = 1500) =>
                  class = "Excellent" /\ w.is_viable /\ w.recommended_mode = "FM/SSB"

\* a position at 45 degrees and exactly 2000 km is Good, not Excellent
C13_Witness ==
    /\ rd.wdone /\ rd.wpos.is_visible
    /\ rd.wpos.elevation = 45 /\ rd.wpos.range_km = 2000
    /\ rd.window.signal_strength_estimate = "Good"

\* C14: a position of calculate_position with elevation <= 0 is not visible,
\* and its link evaluation is not viable, NoSignal, without a recommended
\* mode, whatever the range, and the table is not consulted.
C14_BelowHorizon ==
    (rd.wdone /\ rd.wpos.elevation <= 0) =>
        /\ ~rd.wpos.is_visible
        /\ ~rd.window.is_viable
        /\ rd.window.signal_strength_estimate = "NoSignal"
        /\ rd.window.recommended_mode = "None"
        /\ ~rd.window.table

\* a position exactly on the horizon, at close range, was evaluated
C14_Witness ==
    /\ rd.wdone
    /\ rd.wpos.elevation = 0 /\ rd.wpos.range_km = 400
    /\ rd.window.reason = "Satellite below horizon"

\* C15: with v_r = speed * cos(elevation) above the horizon and 0 otherwise,
\* the downlink shift is -(v_r / c) * f_down, the uplink shift is
\* +(v_r / c) * f_up, the observed downlink is f_down plus its shift and the
\* corrected uplink is f_up plus its shift; at or below the horizon both
\* shifts are 0.  (The frequencies are n * c / 2 Hz, so the shift is
\* n * v_r / 2.)
C15_Doppler ==
    rd.ddone =>
        LET el == rd.dpos.elevation
            d == rd.doppler
            \* v_r times the denominator of the cosine
            v_r_den == IF el > 0 THEN rd.dpos.velocity_km_s * CosRatio(el)[1] ELSE 0
            den == IF el > 0 THEN CosRatio(el)[2] ELSE 1
        IN  /\ \A n \in {1, 3} :
                  rd.fd = n * (SPEED_OF_LIGHT \div 2) =>
                      2 * den * d.downlink_shift_hz = -(n * v_r_den)
            /\ \A n \in {1, 3} :
                  rd.fu = n * (SPEED_OF_LIGHT \div 2) =>
                      2 * den * d.uplink_shift_hz = n * v_r_den
            /\ d.downlink_observed_mhz = rd.fd + d.downlink_shift_hz
            /\ d.uplink_corrected_mhz = rd.fu + d.uplink_shift_hz
            /\ d.downlink_frequency_mhz = rd.fd
            /\ d.uplink_frequency_mhz = rd.fu
            /\ el <= 0 =>
                  /\ d.downlink_shift_hz = 0 /\ d.uplink_shift_hz = 0
                  /\ d.downlink_observed_mhz = rd.fd
                  /\ d.uplink_corrected_mhz = rd.fu

\* a satellite above the horizon: the downlink is observed low, the uplink
\* corrected high
C15_Witness ==
    /\ rd.ddone
    /\ rd.dpos.elevation = 37
    /\ rd.doppler.downlink_observed_mhz < rd.fd
    /\ rd.doppler.uplink_corrected_mhz > rd.fu

-----------------------------------------------------------------------------
(* Properties of the epoch decoding, checked under SpecTle *)

\* the decoded epoch in milliseconds after 00:00:00 of the day-of-year
\* named by the field
MillisIntoDay ==
    (tle.epoch.secs - YearStart(tle.year) - (DayOfYear(tle.yyddd) - 1) * SecondsPerDay)
        * 1000 + tle.epoch.millis

\* C16 as stated: the field decodes to 1 January of the resolved year plus
\* exactly (DDD.ddd - 1) days, the year being 1900 + YY from YY = 57 and
\* 2000 + YY below.
C16_DecodesExactly ==
    tle.done =>
        /\ tle.year = (IF tle.yyddd >= 57000 THEN 1900 ELSE 2000) + tle.yyddd \div 1000
        /\ TimesOver(864, tle.frac, 1000) = <<MillisIntoDay, 0>>

\* C16 amended: the year is 1900 + YY from YY = 57 and 2000 + YY below; the
\* decoded epoch is a whole number of milliseconds after 1 January
\* 00:00:00 UTC of that year, never later than (DDD.ddd - 1) days after it
\* and at most one millisecond earlier; it is exact for the decimals that
\* are binary fractions, among them day-of-year 1.0 (Y-01-01T00:00:00Z) and
\* 24001.5, 57001.5, 56364.0.
C16_DecodesToMillisecond ==
    tle.done =>
        LET exact == TimesOver(864, tle.frac, 1000)
        IN  /\ tle.year = (IF tle.yyddd >= 57000 THEN 1900 ELSE 2000) + tle.yyddd \div 1000
            /\ tle.epoch.millis \in 0..999
            /\ MillisIntoDay <= exact[1]
            /\ exact[1] <= MillisIntoDay + 1
            /\ exact[2] > 0 => MillisIntoDay = exact[1]
            /\ BinaryFraction(tle.frac) => exact = <<MillisIntoDay, 0>>
            /\ (tle.yyddd % 1000 = 1 /\ tle.frac = 0) =>
                  tle.epoch = [secs |-> YearStart(tle.year), millis |-> 0]
            /\ (tle.yyddd = 24001 /\ tle.frac = 50000000) =>
                  tle.epoch = [secs |-> YearStart(2024) + 43200, millis |-> 0]
            /\ (tle.yyddd = 57001 /\ tle.frac = 50000000) =>
                  tle.epoch = [secs |-> YearStart(1957) + 43200, millis |-> 0]
            /\ (tle.yyddd = 56364 /\ tle.frac = 0) =>
                  tle.epoch = [secs |-> YearStart(2056) + 363 * SecondsPerDay, millis |-> 0]

\* a field of 1957 whose decimals are not a whole number of milliseconds
C16_Witness ==
    /\ tle.done
    /\ tle.yyddd = 57001 /\ tle.frac = 51782528
    /\ tle.year = 1957
    /\ tle.epoch.millis = 104

-----------------------------------------------------------------------------
(* Properties of the snapshot and of the alerts, checked under SpecApp *)

\* C26: after every refresh, for every index i below the length of
\* current_positions, current_positions[i] is the position of satellites[i]
\* (same name), so that the panels drawn for selected_satellite describe
\* the selected satellite.
C26_IndexAligned ==
    upd.drawn =>
        \A i \in 1..Len(app.current_positions) :
            app.current_positions[i].name = app.satellites[i].name

\* a refresh cycle of this step ran update_alerts
AlertCycle == upd'.done /\ upd'.now > upd.now

\* the alert k of the last cycle is raised again in the cycle of this step
RaisedAgain(k) ==
    \E j \in 1..Len(app'.alerts) :
        /\ app'.alerts[j].satellite_name = app.alerts[k].satellite_name
        /\ app'.alerts[j].pass = app.alerts[k].pass

\* C27: with alerts enabled and the application in Normal mode, an alert
\* raised for a pass is raised again in every later refresh cycle whose now
\* is before the aos_time of that pass.
C27_PersistsUntilAos ==
    [][(AlertCycle /\ app.mode = "Normal") =>
          \A k \in 1..Len(app.alerts) :
              upd'.now < app.alerts[k].pass.aos_time => RaisedAgain(k)]_vars

\* C27: with alerts enabled and the application in Normal mode, an alert
\* raised for a pass is raised again in every later refresh cycle whose now
\* is at least one whole minute before the aos_time of that pass; in the
\* last minute before AOS the alert is gone.
C27_PersistsUntilLastMinute ==
    [][(AlertCycle /\ app.mode = "Normal") =>
          \A k \in 1..Len(app.alerts) :
              /\ upd'.now + 60 <= app.alerts[k].pass.aos_time => RaisedAgain(k)
              /\ upd'.now + 60 > app.alerts[k].pass.aos_time => ~RaisedAgain(k)]_vars

\* an alert of the cycle at 0 s is raised again, a minute less away, in the
\* cycle at 30 s
C27_Witness ==
    /\ upd.done
    /\ upd.before = 0
    /\ upd.now = 30
    /\ \E k \in 1..Len(app.alerts) :
          /\ app.alerts[k].pass.aos_time = 130
          /\ app.alerts[k].time_until_minutes = 1
          /\ WithinLead(NumMinutes(130 - upd.before), app.config)

-----------------------------------------------------------------------------
(* Properties of the returned pass list, checked under SpecPredict *)

\* the instants around the passes of the result at which the list is read
ReadInstants ==
    UNION {{result.passes[k].aos_time - 1, result.passes[k].aos_time,
            result.passes[k].los_time} : k \in 1..Len(result.passes)}

\* C25: the passes returned by predict_passes are chronological and
\* pairwise disjoint: each pass ends after it begins and before the next one
\* begins; so get_next_pass, the first pass in list order that begins after
\* now, is the pass with the smallest aos_time among the passes that begin
\* after now, and there is none only when no pass begins after now.
C25_ChronologicalDisjoint ==
    (pc = "done" /\ result.kind = "Ok") =>
        /\ \A k \in 1..Len(result.passes) :
              /\ result.passes[k].aos_time < result.passes[k].los_time
              /\ k > 1 => result.passes[k - 1].los_time < result.passes[k].aos_time
        /\ \A now \in ReadInstants :
              LET next == get_next_pass(result.passes, now)
                  later == {k \in 1..Len(result.passes) : result.passes[k].aos_time > now}
              IN  /\ next = 0 <=> later = {}
                  /\ next # 0 =>
                        /\ next \in later
                        /\ \A k \in later :
                              result.passes[next].aos_time <= result.passes[k].aos_time

\* two passes were returned; read during the first, the next pass is the
\* second, and read before the first, the first
C25_Witness ==
    /\ pc = "done"
    /\ result.kind = "Ok"
    /\ Len(result.passes) = 2
    /\ get_next_pass(result.passes, result.passes[1].aos_time) = 2
    /\ get_next_pass(result.passes, result.passes[1].aos_time - 1) = 1

-----------------------------------------------------------------------------
(* Properties of the link evaluation, checked under SpecRadio *)

\* C29: evaluate_communication_window returns a recommended_mode exactly
\* when is_viable is true; a visible position with elevation >= 10 is never
\* classed NoSignal, so the link is viable exactly when the position is
\* visible with elevation >= 10, whatever the range.
C29_ModeIffViable ==
    rd.wdone =>
        /\ rd.window.recommended_mode # "None" <=> rd.window.is_viable
        /\ (rd.wpos.is_visible /\ rd.wpos.elevation >= 10)
              => rd.window.signal_strength_estimate # "NoSignal"
        /\ rd.window.is_viable <=> (rd.wpos.is_visible /\ rd.wpos.elevation >= 10)

\* elevation exactly 10 at a range beyond every range of the table: Poor,
\* viable, with the mode of the lowest step
C29_Witness ==
    /\ rd.wdone
    /\ rd.wpos.elevation = 10 /\ rd.wpos.range_km = 4000
    /\ rd.window.is_viable
    /\ rd.window.signal_strength_estimate = "Poor"
    /\ rd.window.recommended_mode = "SSB (difficult)"

-----------------------------------------------------------------------------
(* Properties of the satellite database, checked under SpecDb *)

\* C23: create(d) on a database that holds no record named d.name returns
\* a positive id, and read_by_name(d.name) then returns the record of that
\* id whose name, TLE line, frequency and notes are those of d.
C23_RoundTrip ==
    (db.op = "create" /\ ~(\E r \in db.before : r.name = db.d.name))
        => /\ db.ok
           /\ db.ret > 0
           /\ read_by_name(db.rows, db.d.name) = Some([db.d EXCEPT !.id = Some(db.ret)])

\* the id a call writes to: the id of the record for update, the key for
\* delete, the id returned for create
WrittenId ==
    CASE db.op = "update" /\ db.d.id # None -> db.d.id[1]
      [] db.op = "delete" -> db.key
      [] db.op = "create" /\ db.ok -> db.ret
      [] OTHER -> 0

-----------------------------------------------------------------------------
(* Properties of the scan of a TLE file, checked under SpecFile *)

\* lines i, i + 1, i + 2 (counted from 1) are a name, a line 1 and a line 2
IsTriple(lines, i) ==
    /\ i + 2 <= Len(lines)
    /\ lines[i].first # ""
    /\ lines[i + 1].first = "1"
    /\ lines[i + 2].first = "2"

\* the triples of a file, read from the top, a triple taking its three lines
RECURSIVE TriplesFrom(_, _)
TriplesFrom(lines, i) ==
    IF i + 2 > Len(lines) THEN << >>
    ELSE IF IsTriple(lines, i) THEN <<i>> \o TriplesFrom(lines, i + 3)
    ELSE TriplesFrom(lines, i + 1)

\* the tracked triples that the element parser accepts, in file order
RECURSIVE Kept(_, _, _, _)
Kept(lines, c, starts, sats) ==
    IF starts = << >> THEN sats
    ELSE LET i == Head(starts)
         IN  IF ShouldTrack(lines[i].text, sats, c) /\ from_tle(lines[i + 1], lines[i + 2])
             THEN Kept(lines, c, Tail(starts),
                       Append(sats, [name |-> lines[i].text, at |-> i - 1]))
             ELSE Kept(lines, c, Tail(starts), sats)

\* C28: for every TLE file text, the empty text and texts of fewer than
\* three lines included, parse_multiple_tles does not panic: it returns a
\* non-empty list holding exactly the tracked triples that the element
\* parser accepts, in file order, or, when there is none, the error that no
\* valid satellites were found.
C28_ListOrNoValid ==
    tf.done =>
        LET kept == Kept(tf.lines, tf.config, TriplesFrom(tf.lines, 1), << >>)
        IN  /\ tf.result.kind \in {"Ok", "ErrNoValid"}
            /\ tf.result.kind = "Ok" <=> kept # << >>
            /\ tf.result.satellites = kept

-----------------------------------------------------------------------------
(* Properties of the configuration editor, checked under SpecEditor *)

\* the step handles a key in Edit or Add mode
EditKeyStep ==
    /\ ed.mode = "SatelliteConfig"
    /\ ed.edit_mode \in {"Edit", "Add"}
    /\ <<ed, db>>' # <<ed, db>>

\* C30: in the Edit and Add modes of the editor the database is written
\* only by Enter with a non-empty name: every other key leaves the database
\* as it was; Esc returns to List mode; Enter while the name is empty sets
\* the error status and stays in the same edit mode.
C30_WrittenOnlyByEnter ==
    [][EditKeyStep =>
          /\ db' # db => (ed'.key = "Enter" /\ ed'.editing_satellite.name # << >>)
          /\ ed'.key = "Esc" => (ed'.edit_mode = "List" /\ db' = db)
          /\ (ed'.key = "Enter" /\ ed'.editing_satellite.name = << >>) =>
                /\ ed'.status_message = Some("Error: Name is required")
                /\ ed'.edit_mode = ed.edit_mode
                /\ db' = db]_vars

\* Enter in Edit mode, the name not empty, has rewritten a row of the table
\* and the editor is back in List mode
C30_Witness ==
    /\ ed.key = "Enter"
    /\ ed.edit_mode = "List"
    /\ ed.status_message = Some("Saved")
    /\ db.op = "update" /\ db.ok /\ db.ret = 1
    /\ db.rows # db.before

=============================================================================
